---------------------------- MODULE Spec2Model ----------------------------
(***************************************************************************)
(* A model of the two notebooks of exemplary-ml-pipeline:                  *)
(*   (2)automated_feature_engineering.ipynb  - the relational schema, deep  *)
(*       feature synthesis, test replay, post-processing and save;         *)
(*   (4)automated_model_selection_and_analysis.ipynb - the submission cell. *)
(* Each code cell is one action; the two custom primitives are operators.  *)
(* Data frames are sequences of rows; a pandas Series is a record of an    *)
(* index (row labels) and its values.  pandas row labels start at 0.       *)
(***************************************************************************)
EXTENDS Integers, Sequences, FiniteSets, TLC

VARIABLES
    \* ---- (2) feature-engineering notebook ----
    train_users_csv,    \* '(1)data_manual_ops/train_users.csv'
    test_users_ops_csv, \* '(1)data_manual_ops/test_users.csv'
    age_gender_bkts_csv,\* '(1)data_manual_ops/age_gender_bkts.csv'
    sessions_csv,       \* '(0)data/sessions.csv'
    users_df, users_test_df, buckets_df, sessions_df,
    targets,            \* the label values kept aside
    es, es_test,        \* the two entity sets
    feature_definitions,
    feature_matrix, feature_matrix_test,
    saved_train_csv,    \* '(2)data_automated_ops/train_users.csv'
    saved_test_csv,     \* '(2)data_automated_ops/test_users.csv'
    raised,             \* the exception that stopped the run, "" if none
    pc,                 \* the last cell that ran
    \* ---- (4) submission cell ----
    test_users_csv,     \* id column of '(0)data/test_users.csv', in file order
    predict_of,         \* the label the loaded model predicts for each user
    predictions,        \* predictions.as_data_frame()['predict']
    answers,            \* the answers data frame
    answers_csv,        \* 'answers.csv' as written
    sub_pc,
    \* ---- (4) model-selection notebook ----
    training_csv,       \* the file at training_filepath
    testing_csv,        \* the file at testing_filepath
    X_train, X_test,    \* the imported H2OFrames
    train_variables,    \* the predictor list
    aml,                \* the H2OAutoML object
    lb,                 \* the leaderboard that was retrieved
    saved_models,       \* the files under 'saved_models/'
    model_path,         \* what h2o.save_model returned
    model,              \* what h2o.load_model returned
    defined,            \* the names bound in the notebook's namespace
    ms_raised,          \* the exception that stopped the run, "" if none
    ms_pc,              \* the last cell that ran
    \* ---- (2) custom primitive calls ----
    column,             \* argument of anger_words_count
    anger_words,        \* keyword list argument
    counts,             \* what anger_words_count returned (or raised)
    anger_pc,
    seconds_elapsed,    \* argument of count_long_dreaming_sessions
    long_sessions,      \* what count_long_dreaming_sessions returned
    long_pc

subVars   == <<test_users_csv, predict_of, predictions, answers, answers_csv, sub_pc>>
angerVars == <<column, anger_words, counts, anger_pc>>
longVars  == <<seconds_elapsed, long_sessions, long_pc>>
fileVars  == <<train_users_csv, test_users_ops_csv, age_gender_bkts_csv, sessions_csv>>
nbVars    == <<fileVars, users_df, users_test_df, buckets_df, sessions_df, targets,
               es, es_test, feature_definitions, feature_matrix, feature_matrix_test,
               saved_train_csv, saved_test_csv, raised, pc>>
msVars    == <<training_csv, testing_csv, X_train, X_test, train_variables, aml, lb,
               saved_models, model_path, model, defined, ms_raised, ms_pc>>
vars      == <<nbVars, subVars, angerVars, longVars, msVars>>

----------------------------------------------------------------------------
(* Bounds of the explored inputs *)

MaxKeys == 3
MaxRows == 2
MaxVals == 4
MaxUsers == 2
MaxSessions == 2

----------------------------------------------------------------------------
(* Generic helpers *)

Range(s) == {s[i] : i \in DOMAIN s}

SeqsUpTo(S, n) == UNION {[1..k -> S] : k \in 0..n}

IsInjective(s) == \A i, j \in DOMAIN s : s[i] = s[j] => i = j

RECURSIVE SumSeq(_)
SumSeq(s) == IF s = <<>> THEN 0 ELSE Head(s) + SumSeq(Tail(s))

\* Positions 1..Len(key) ordered by ascending key, ties kept in row order
\* (what sort_values yields for the row positions).
RECURSIVE InsertPos(_, _, _)
InsertPos(key, p, sorted) ==
    IF sorted = <<>> THEN <<p>>
    ELSE IF key[Head(sorted)] <= key[p]
         THEN <<Head(sorted)>> \o InsertPos(key, p, Tail(sorted))
         ELSE <<p>> \o sorted

RECURSIVE ArgSortUpTo(_, _)
ArgSortUpTo(key, n) ==
    IF n = 0 THEN <<>> ELSE InsertPos(key, n, ArgSortUpTo(key, n - 1))

ArgSort(key) == ArgSortUpTo(key, Len(key))

----------------------------------------------------------------------------
(* pandas pieces used by the submission cell *)

NaN == "NaN"

\* pd.read_csv(...)['id']: a Series with the default labels 0..n-1
ReadCsvColumn(file) ==
    [index |-> [i \in DOMAIN file |-> i - 1], values |-> file]

\* Series.sort_values / DataFrame.sort_values(col)[col]: rows reordered by
\* value, each row keeping its label
SortValuesByPositions(s, order) ==
    [index  |-> [i \in DOMAIN order |-> s.index[order[i]]],
     values |-> [i \in DOMAIN order |-> s.values[order[i]]]]

SortValues(s) == SortValuesByPositions(s, ArgSort(s.values))

\* value of Series s at label l, NaN when s has no such label
AtLabel(s, l) ==
    IF \E i \in DOMAIN s.index : s.index[i] = l
    THEN s.values[CHOOSE i \in DOMAIN s.index : s.index[i] = l]
    ELSE NaN

\* frame[col] = series, on a frame that has an index: the series is aligned
\* on the frame's row labels
AlignToIndex(index, s) == [i \in DOMAIN index |-> AtLabel(s, index[i])]


----------------------------------------------------------------------------
(* (4) the submission cell *)

Labels == {"US", "NDF"}

\* pd.read_csv('(0)data/test_users.csv').sort_values('id')['id']
SortedIdColumn(file) == SortValues(ReadCsvColumn(file))

\* predictions.as_data_frame()['predict']: default labels 0..n-1
PredictColumn(preds) == ReadCsvColumn(preds)

\* answers = pd.DataFrame(); answers['id'] = ...; answers['country'] = ...
\* The empty frame takes the row labels of the first Series assigned to it;
\* the second Series is then aligned on those labels.
AnswersFrame(file, preds) ==
    LET ids == SortedIdColumn(file)
    IN  [index   |-> ids.index,
         id      |-> ids.values,
         country |-> AlignToIndex(ids.index, PredictColumn(preds))]

\* answers.set_index('id', inplace=True)
SetIndexId(frame) == [index |-> frame.id, country |-> frame.country]

\* to_csv without the index column
ToCsvDroppingIndex(frame) ==
    [header |-> <<"country">>,
     rows   |-> [i \in DOMAIN frame.index |-> [country |-> frame.country[i]]]]

\* answers.to_csv('answers.csv'): the index column, then the data columns
ToCsvWithIndex(frame) ==
    [header |-> <<"id", "country">>,
     rows   |-> [i \in DOMAIN frame.index |->
                    [id |-> frame.index[i], country |-> frame.country[i]]]]

NoCsv == [header |-> <<>>, rows |-> <<>>]
NoFrame == [index |-> <<>>, country |-> <<>>]

SubmissionCell ==
    /\ sub_pc = "predicted"
    /\ answers' = SetIndexId(AnswersFrame(test_users_csv, predictions))
    /\ answers_csv' = ToCsvWithIndex(answers')
    /\ sub_pc' = "written"
    /\ UNCHANGED <<test_users_csv, predict_of, predictions>>

Keys == 1..MaxKeys

\* The keys of a file in ascending order
SortedKeys(file) == [i \in DOMAIN file |-> file[ArgSort(file)[i]]]

SubmissionIdle ==
    /\ test_users_csv = <<>>
    /\ predict_of = <<>>
    /\ predictions = <<>>
    /\ answers = NoFrame
    /\ answers_csv = NoCsv
    /\ sub_pc = "idle"

----------------------------------------------------------------------------
(* (2) the custom primitives *)

LongSessionSecs == 3600

\* def count_long_dreaming_sessions(seconds_elapsed)
CountAtLeast(s, threshold) ==
    Cardinality({i \in DOMAIN s : s[i] >= threshold})

CountAbove(s, threshold) ==
    Cardinality({i \in DOMAIN s : s[i] > threshold})

\* the same count with a strict comparison
count_long_dreaming_sessions_strict(s) == CountAbove(s, LongSessionSecs)

count_long_dreaming_sessions(s) == CountAtLeast(s, LongSessionSecs)

UpperLetters == <<"A", "B", "C", "D", "E", "F", "G", "H", "I", "J", "K", "L", "M",
                  "N", "O", "P", "Q", "R", "S", "T", "U", "V", "W", "X", "Y", "Z">>
LowerLetters == <<"a", "b", "c", "d", "e", "f", "g", "h", "i", "j", "k", "l", "m",
                  "n", "o", "p", "q", "r", "s", "t", "u", "v", "w", "x", "y", "z">>

\* str.lower(), one character
LowerChar(c) ==
    IF \E i \in DOMAIN UpperLetters : UpperLetters[i] = c
    THEN LowerLetters[CHOOSE i \in DOMAIN UpperLetters : UpperLetters[i] = c]
    ELSE c

\* str.lower()
Lower(text) == [i \in DOMAIN text |-> LowerChar(text[i])]

\* str.count(sub): the non-overlapping occurrences of sub, scanning from the left
RECURSIVE CountFrom(_, _, _)
CountFrom(text, sub, i) ==
    IF i + Len(sub) - 1 > Len(text) THEN 0
    ELSE IF SubSeq(text, i, i + Len(sub) - 1) = sub
         THEN 1 + CountFrom(text, sub, i + Len(sub))
         ELSE CountFrom(text, sub, i + 1)

StrCount(text, sub) ==
    IF sub = <<>> THEN Len(text) + 1 ELSE CountFrom(text, sub, 1)

\* The names the notebook has bound when the primitives cell has run: the
\* import cell and the two from-imports of the primitives cell.  numpy is
\* never imported, so np is not among them.
GlobalNames ==
    {"pd", "ft", "unknown_to_nan",
     "make_agg_primitive", "make_trans_primitive", "Text", "Numeric", "Categorical"}

Returned(v) == [raised |-> "", value |-> v]
Raised(e)   == [raised |-> e, value |-> <<>>]

\* def anger_words_count(column, anger_words=[...]).  np is looked up when the
\* outer comprehension evaluates its first element; an empty column never
\* evaluates it.
AngerCounts(names, col, words) ==
    IF col = <<>> THEN Returned(<<>>)
    ELSE IF "np" \notin names THEN Raised("NameError")
    ELSE Returned([r \in DOMAIN col |->
            SumSeq([w \in DOMAIN words |-> StrCount(Lower(col[r]), words[w])])])

anger_words_count(col, words) == AngerCounts(GlobalNames, col, words)

TerribleText ==
    <<"T", "h", "i", "s", " ", "i", "s", " ", "t", "e", "r", "r", "i", "b", "l", "e",
      " ", "a", "n", "d", " ", "d", "i", "s", "g", "u", "s", "t", "i", "n", "g">>
Terrible   == <<"t", "e", "r", "r", "i", "b", "l", "e">>
Disgusting == <<"d", "i", "s", "g", "u", "s", "t", "i", "n", "g">>
Hate       == <<"h", "a", "t", "e">>
Furious    == <<"f", "u", "r", "i", "o", "u", "s">>
Shameful   == <<"s", "h", "a", "m", "e", "f", "u", "l">>

\* the default of the anger_words parameter
DefaultAngerWords == <<Hate, Furious, Terrible, Disgusting, Shameful>>

\* Inputs explored for the two primitives
Texts ==
    {TerribleText,
     <<"I", " ", "H", "A", "T", "E", " ", "h", "a", "t", "e", "f", "u", "l">>,
     <<"a", "a", "a">>,
     <<>>}

KeywordLists ==
    {DefaultAngerWords, <<Terrible, Disgusting>>, <<<<"H", "a", "t", "e">>>>, <<<<"a", "a">>>>}

SecsValues == {100, 3600, 3700, 4000}

CallAngerWordsCount ==
    /\ anger_pc = "defined"
    /\ counts' = anger_words_count(column, anger_words)
    /\ anger_pc' = "called"
    /\ UNCHANGED <<column, anger_words>>

CallCountLongDreamingSessions ==
    /\ long_pc = "defined"
    /\ long_sessions' = count_long_dreaming_sessions(seconds_elapsed)
    /\ long_pc' = "called"
    /\ UNCHANGED seconds_elapsed

AngerIdle ==
    /\ column = <<>>
    /\ anger_words = <<>>
    /\ counts = Returned(<<>>)
    /\ anger_pc = "idle"

LongIdle ==
    /\ seconds_elapsed = <<>>
    /\ long_sessions = 0
    /\ long_pc = "idle"

----------------------------------------------------------------------------
(* (2) data frames *)

\* A data frame: its column names in order and its rows in order, each row a
\* function from column name to value.
Table(cols, rows) == [columns |-> cols, rows |-> rows]

NoTable == Table(<<>>, <<>>)

HasColumn(t, col) == col \in Range(t.columns)

ColumnValues(t, col) == [i \in DOMAIN t.rows |-> t.rows[i][col]]

RECURSIVE Without(_, _)
Without(s, x) ==
    IF s = <<>> THEN <<>>
    ELSE IF Head(s) = x THEN Without(Tail(s), x)
         ELSE <<Head(s)>> \o Without(Tail(s), x)

\* pd.read_csv
ReadCsv(file) == file

\* df.sort_values(col, inplace=True)
SortValuesBy(t, col) ==
    LET order == ArgSort(ColumnValues(t, col))
    IN  Table(t.columns, [i \in DOMAIN order |-> t.rows[order[i]]])

\* df.drop(col, axis=1, inplace=True)
DropColumn(t, col) ==
    Table(Without(t.columns, col),
          [i \in DOMAIN t.rows |->
              [c \in (DOMAIN t.rows[i]) \ {col} |-> t.rows[i][c]]])

\* df.insert(0, col, values)
InsertFirst(t, col, values) ==
    Table(<<col>> \o t.columns,
          [i \in DOMAIN t.rows |->
              [c \in (DOMAIN t.rows[i]) \cup {col} |->
                  IF c = col THEN values[i] ELSE t.rows[i][c]]])

----------------------------------------------------------------------------
(* (2) the data loading cell *)

LabelColumn == "country_destination"

\* users_df after read_csv, sort_values('id') and the drop of the label
LoadUsersKeepingLabel(file) == SortValuesBy(ReadCsv(file), "id")

LoadUsers(file) == DropColumn(SortValuesBy(ReadCsv(file), "id"), LabelColumn)

\* targets = users_df['country_destination'].values, read after the sort
LoadTargetsBeforeSort(file) == ColumnValues(ReadCsv(file), LabelColumn)

LoadTargets(file) == ColumnValues(SortValuesBy(ReadCsv(file), "id"), LabelColumn)

LoadTestUsers(file) == SortValuesBy(ReadCsv(file), "id")

----------------------------------------------------------------------------
(* (2) entity sets *)

EmptyEntitySet(id) == [id |-> id, entities |-> <<>>, relationships |-> <<>>]

NoEntitySet == EmptyEntitySet("")

\* The column types pandas and featuretools infer for the columns of the files
InferredType(col) ==
    CASE col \in {"date_account_created", "timestamp_first_active"} -> "Datetime"
      [] col \in {"gender", "age_gender_bucket", "action_detail", LabelColumn}
                                                                    -> "Categorical"
      [] OTHER                                                      -> "Numeric"

\* the range counted down
MakeIndexValuesReversed(n) == [i \in 1..n |-> n - i]

\* range(0, len(df))
MakeIndexValues(n) == [i \in 1..n |-> i - 1]

Result(exc, eset, df) == [raised |-> exc, es |-> eset, df |-> df]

\* EntitySet.entity_from_dataframe: a missing index column is inserted into
\* the caller's frame as its first column; the index must then be unique.
\* The result carries the entity set and the (possibly extended) frame.
EntityFromDataframeUnlessUnique(eset, entity_id, df, index, make_index, types) ==
    IF make_index /\ HasColumn(df, index)
    THEN Result("RuntimeError", eset, df)
    ELSE LET frame == IF HasColumn(df, index) THEN df
                      ELSE InsertFirst(df, index, MakeIndexValues(Len(df.rows)))
             entity ==
                [id |-> entity_id,
                 index |-> index,
                 created_index |-> IF HasColumn(df, index) THEN "" ELSE index,
                 df |-> frame,
                 variable_types |->
                    [c \in Range(frame.columns) |->
                        IF c = index THEN "Index"
                        ELSE IF c \in DOMAIN types THEN types[c]
                        ELSE InferredType(c)],
                 interesting_values |-> [c \in Range(frame.columns) |-> <<>>]]
         IN  Result("", [eset EXCEPT !.entities = Append(@, entity)], frame)

EntityFromDataframeChecked(eset, entity_id, df, index, make_index, types) ==
    LET r == EntityFromDataframeUnlessUnique(eset, entity_id, df, index,
                                             make_index, types)
    IN  IF r.raised = "" /\ ~IsInjective(ColumnValues(r.df, index))
        THEN Result("AssertionError", eset, r.df)
        ELSE r

EntityFromDataframe(eset, entity_id, df, index, make_index, types) ==
    EntityFromDataframeChecked(eset, entity_id, df, index, make_index, types)

NoTypes == <<>>
SignupFlowCategorical == [c \in {"signup_flow"} |-> "Categorical"]

Entity(eset, entity_id) ==
    eset.entities[CHOOSE i \in DOMAIN eset.entities : eset.entities[i].id = entity_id]

HasEntity(eset, entity_id) ==
    \E i \in DOMAIN eset.entities : eset.entities[i].id = entity_id

\* the declarations of one entity set made on a copy of the sessions frame:
\* the caller's frame is handed back as it was
BuildEntitySetOnCopy(id, users, sessions, buckets, sessions_make_index) ==
    LET u == EntityFromDataframe(EmptyEntitySet(id), "users", users, "id",
                                 FALSE, SignupFlowCategorical)
        s == IF u.raised # "" THEN Result(u.raised, u.es, sessions)
             ELSE EntityFromDataframe(u.es, "sessions", sessions, "data_id",
                                      sessions_make_index, NoTypes)
        b == IF s.raised # "" THEN s
             ELSE EntityFromDataframe(s.es, "buckets", buckets, "bucket_id",
                                      FALSE, NoTypes)
    IN  [raised |-> b.raised, es |-> b.es, sessions |-> sessions]

\* The declarations of one entity set: users, then sessions, then buckets;
\* the first one that raises ends the chain.  sessions_make_index is the
\* make_index argument of the sessions declaration.
BuildEntitySet(id, users, sessions, buckets, sessions_make_index) ==
    LET u == EntityFromDataframe(EmptyEntitySet(id), "users", users, "id",
                                 FALSE, SignupFlowCategorical)
        s == IF u.raised # "" THEN Result(u.raised, u.es, sessions)
             ELSE EntityFromDataframe(u.es, "sessions", sessions, "data_id",
                                      sessions_make_index, NoTypes)
        b == IF s.raised # "" THEN s
             ELSE EntityFromDataframe(s.es, "buckets", buckets, "bucket_id",
                                      FALSE, NoTypes)
    IN  [raised |-> b.raised, es |-> b.es, sessions |-> s.df]

\* the entity set setup cell
EntitySetCell ==
    /\ pc = "loaded"
    /\ LET train == BuildEntitySet("bookings", users_df, sessions_df, buckets_df, TRUE)
           test  == BuildEntitySet("bookings_test", users_test_df, train.sessions,
                                   buckets_df, FALSE)
       IN  IF train.raised # ""
           THEN /\ es' = train.es
                /\ es_test' = es_test
                /\ sessions_df' = train.sessions
                /\ raised' = train.raised
                /\ pc' = "error"
           ELSE /\ es' = train.es
                /\ es_test' = test.es
                /\ sessions_df' = test.sessions
                /\ raised' = test.raised
                /\ pc' = IF test.raised # "" THEN "error" ELSE "entities"
    /\ UNCHANGED <<fileVars, users_df, users_test_df, buckets_df, targets,
                   feature_definitions, feature_matrix, feature_matrix_test,
                   saved_train_csv, saved_test_csv>>

\* what the cell with its halves exchanged leaves: first is the outcome of
\* the es_test declarations, second that of the es declarations after them
ExchangedOutcome(first, second) ==
    IF first.raised # ""
    THEN /\ es_test' = first.es
         /\ es' = es
         /\ sessions_df' = first.sessions
         /\ raised' = first.raised
         /\ pc' = "error"
    ELSE /\ es_test' = first.es
         /\ es' = second.es
         /\ sessions_df' = second.sessions
         /\ raised' = second.raised
         /\ pc' = IF second.raised # "" THEN "error" ELSE "entities"

\* es is declared on the sessions frame as the es_test declarations left it
ExchangedSecond(first) ==
    ExchangedOutcome(first,
        BuildEntitySet("bookings", users_df, first.sessions, buckets_df, TRUE))

\* the entity set setup cell with its two halves exchanged: es_test is
\* declared on the loaded frames first, es after it
EntitySetCellTestFirst ==
    /\ pc = "loaded"
    /\ ExchangedSecond(
          BuildEntitySet("bookings_test", users_test_df, sessions_df, buckets_df, FALSE))
    /\ UNCHANGED <<fileVars, users_df, users_test_df, buckets_df, targets,
                   feature_definitions, feature_matrix, feature_matrix_test,
                   saved_train_csv, saved_test_csv>>

\* ft.Relationship(parent_variable, child_variable)
Relationship(parent_entity, parent_variable, child_entity, child_variable) ==
    [parent_entity |-> parent_entity, parent_variable |-> parent_variable,
     child_entity |-> child_entity, child_variable |-> child_variable]

SetVariableType(eset, entity_id, col, type) ==
    [eset EXCEPT !.entities =
        [i \in DOMAIN @ |->
            IF @[i].id = entity_id
            THEN [@[i] EXCEPT !.variable_types[col] = type]
            ELSE @[i]]]

\* EntitySet.add_relationship: the child variable becomes an Id, the parent
\* variable an Index, and the relationship is recorded
AddRelationship(eset, r) ==
    LET typed == SetVariableType(
                    SetVariableType(eset, r.child_entity, r.child_variable, "Id"),
                    r.parent_entity, r.parent_variable, "Index")
    IN  IF r \in Range(eset.relationships) THEN eset
        ELSE [typed EXCEPT !.relationships = Append(@, r)]

RECURSIVE AddRelationships(_, _)
AddRelationships(eset, rs) ==
    IF rs = <<>> THEN eset
    ELSE AddRelationships(AddRelationship(eset, Head(rs)), Tail(rs))

\* id_to_id and bucket_to_bucket, in this order
DeclaredRelationships ==
    <<Relationship("users", "id", "sessions", "user_id"),
      Relationship("buckets", "bucket_id", "users", "age_gender_bucket")>>

\* the relationships cell without its last two lines
RelationshipsCellTrainOnly ==
    /\ pc = "entities"
    /\ es' = AddRelationships(es, DeclaredRelationships)
    /\ pc' = "related"
    /\ UNCHANGED <<fileVars, users_df, users_test_df, buckets_df, sessions_df, targets,
                   es_test, feature_definitions, feature_matrix, feature_matrix_test,
                   saved_train_csv, saved_test_csv, raised>>

\* the relationships cell
RelationshipsCell ==
    /\ pc = "entities"
    /\ es' = AddRelationships(es, DeclaredRelationships)
    /\ es_test' = AddRelationships(es_test, DeclaredRelationships)
    /\ pc' = "related"
    /\ UNCHANGED <<fileVars, users_df, users_test_df, buckets_df, sessions_df, targets,
                   feature_definitions, feature_matrix, feature_matrix_test,
                   saved_train_csv, saved_test_csv, raised>>

----------------------------------------------------------------------------
(* (2) feature definitions: ft.dfs(..., features_only) *)

RECURSIVE Flatten(_)
Flatten(ss) == IF ss = <<>> THEN <<>> ELSE Head(ss) \o Flatten(Tail(ss))

\* A feature definition.  base holds the one feature it is computed from
\* (none for an identity feature); where holds the filter of a where-feature.
Feature(kind, prim, entity, var, base, where) ==
    [kind |-> kind, prim |-> prim, entity |-> entity, var |-> var,
     base |-> base, where |-> where]

NoWhere == <<>>
Where(var, value) == <<[var |-> var, value |-> value]>>

IdentityFeature(entity, var) == Feature("identity", "", entity, var, <<>>, NoWhere)
AggFeature(prim, child_feature, entity, where) ==
    Feature("agg", prim, entity, "", <<child_feature>>, where)
TransFeature(prim, base) == Feature("transform", prim, base.entity, "", <<base>>, NoWhere)
DirectFeature(parent_feature, entity) ==
    Feature("direct", "", entity, "", <<parent_feature>>, NoWhere)

RECURSIVE Depth(_)
Depth(f) == IF f.kind = "identity" THEN 0 ELSE 1 + Depth(f.base[1])

\* The type of the values of a feature
RECURSIVE FeatureType(_, _)
FeatureType(eset, f) ==
    CASE f.kind = "identity" -> Entity(eset, f.entity).variable_types[f.var]
      [] f.kind = "direct"   -> FeatureType(eset, f.base[1])
      [] f.kind = "agg"      -> IF f.prim \in {"last", "mode"}
                                THEN FeatureType(eset, f.base[1])
                                ELSE "Numeric"
      [] OTHER               -> CASE f.prim = "cum_sum"    -> "Numeric"
                                  [] f.prim = "is_weekend" -> "Boolean"
                                  [] OTHER                 -> "Ordinal"

\* The input type each primitive takes
InputType(prim) ==
    CASE prim = "last" -> "Variable"
      [] prim \in {"num_unique", "mode"} -> "Discrete"
      [] prim = "count" -> "Index"
      [] prim \in {"hour", "day", "week", "month", "year", "is_weekend"} -> "Datetime"
      [] OTHER -> "Numeric"

Matches(type, input_type) ==
    CASE input_type = "Variable" -> type # "Index"
      [] input_type = "Discrete" -> type \in {"Categorical", "Id", "Ordinal"}
      [] OTHER                   -> type = input_type

UpperName(prim) ==
    CASE prim = "last" -> "LAST" [] prim = "num_unique" -> "NUM_UNIQUE"
      [] prim = "skew" -> "SKEW" [] prim = "min" -> "MIN" [] prim = "mean" -> "MEAN"
      [] prim = "count" -> "COUNT" [] prim = "std" -> "STD" [] prim = "max" -> "MAX"
      [] prim = "median" -> "MEDIAN" [] prim = "mode" -> "MODE"
      [] prim = "hour" -> "HOUR" [] prim = "day" -> "DAY" [] prim = "week" -> "WEEK"
      [] prim = "month" -> "MONTH" [] prim = "year" -> "YEAR"
      [] prim = "is_weekend" -> "IS_WEEKEND" [] prim = "cum_sum" -> "CUM_SUM"
      [] prim = "count_long_dreaming_sessions" -> "COUNT_LONG_DREAMING_SESSIONS"
      [] prim = "anger_words_count" -> "ANGER_WORDS_COUNT"
      [] OTHER -> prim

\* The column name of a feature, as featuretools prints it
RECURSIVE FeatureName(_)
FeatureName(f) ==
    CASE f.kind = "identity" -> f.var
      [] f.kind = "direct"   -> f.base[1].entity \o "." \o FeatureName(f.base[1])
      [] f.kind = "agg"      ->
            UpperName(f.prim) \o "(" \o f.base[1].entity \o "." \o FeatureName(f.base[1])
            \o (IF f.where = NoWhere THEN ""
                ELSE " WHERE " \o f.where[1].var \o " = " \o f.where[1].value)
            \o ")"
      [] OTHER               -> UpperName(f.prim) \o "(" \o FeatureName(f.base[1]) \o ")"

FeatureNames(fs) == [i \in DOMAIN fs |-> FeatureName(fs[i])]

\* The relationships whose parent is entity e, in declaration order
ChildRelationships(eset, e) ==
    SelectSeq(eset.relationships, LAMBDA r : r.parent_entity = e)

ParentRelationships(eset, e) ==
    SelectSeq(eset.relationships, LAMBDA r : r.child_entity = e)

\* Every entity below e with the relationships leading down to it
RECURSIVE DeepChildren(_, _, _)
DeepChildren(eset, e, fuel) ==
    IF fuel = 0 THEN <<>>
    ELSE LET direct == ChildRelationships(eset, e)
         IN  Flatten([i \in DOMAIN direct |->
                <<[entity |-> direct[i].child_entity, path |-> <<direct[i]>>]>> \o
                LET below == DeepChildren(eset, direct[i].child_entity, fuel - 1)
                IN  [j \in DOMAIN below |->
                        [entity |-> below[j].entity,
                         path |-> <<direct[i]>> \o below[j].path]]])

BackwardPaths(eset, e) == DeepChildren(eset, e, Len(eset.relationships))

Ignored(cfg, entity, var) ==
    entity \in DOMAIN cfg.ignore_variables /\ var \in cfg.ignore_variables[entity]

IdentityFeatures(eset, cfg, e) ==
    LET cols == Entity(eset, e).df.columns
    IN  SelectSeq([i \in DOMAIN cols |-> IdentityFeature(e, cols[i])],
               LAMBDA f : ~Ignored(cfg, e, f.var))

\* f is the identity of a foreign key on the path
InRelationshipPath(path, f) ==
    /\ f.kind = "identity"
    /\ \E i \in DOMAIN path :
          path[i].child_entity = f.entity /\ path[i].child_variable = f.var

\* where clauses for the first interesting value of each variable only
WhereClausesOfFirstValue(eset, e) ==
    LET ent  == Entity(eset, e)
        cols == ent.df.columns
    IN  Flatten([i \in DOMAIN cols |->
            IF ent.interesting_values[cols[i]] = <<>> THEN <<>>
            ELSE <<Where(cols[i], ent.interesting_values[cols[i]][1])>>])

\* The where clauses of an entity: one per interesting value of its variables
WhereClauses(eset, e) ==
    LET ent  == Entity(eset, e)
        cols == ent.df.columns
    IN  Flatten([i \in DOMAIN cols |->
            [j \in DOMAIN ent.interesting_values[cols[i]] |->
                Where(cols[i], ent.interesting_values[cols[i]][j])]])

\* The features of entity e built with max_depth d.  path holds the entities
\* above e in the traversal: their direct features are not built for e.
RECURSIVE FeaturesOf(_, _, _, _, _)
FeaturesOf(eset, cfg, e, d, path) ==
    IF d < 0 THEN <<>>
    ELSE
    LET ident == IdentityFeatures(eset, cfg, e)
        below == BackwardPaths(eset, e)
        inputs(i) ==
            SelectSeq(FeaturesOf(eset, cfg, below[i].entity, d - 1, path \cup {e}),
                   LAMBDA f : /\ Depth(f) <= d - 1
                              /\ f.kind # "direct"
                              /\ ~InRelationshipPath(below[i].path, f))
        aggsOf(i, prim) ==
            LET ins == SelectSeq(inputs(i),
                         LAMBDA f : Matches(FeatureType(eset, f), InputType(prim)))
            IN  [k \in DOMAIN ins |-> AggFeature(prim, ins[k], e, NoWhere)]
        aggs == Flatten([i \in DOMAIN below |->
                    Flatten([p \in DOMAIN cfg.agg_primitives |->
                        aggsOf(i, cfg.agg_primitives[p])])])
        wheresOf(i, prim) ==
            LET ins == SelectSeq(inputs(i),
                         LAMBDA f : Matches(FeatureType(eset, f), InputType(prim)))
                ws  == WhereClauses(eset, below[i].entity)
            IN  Flatten([k \in DOMAIN ins |->
                    [w \in DOMAIN ws |->
                        AggFeature(prim, ins[k], e, ws[Len(ws) + 1 - w])]])
        wheres == Flatten([i \in DOMAIN below |->
                    Flatten([p \in DOMAIN cfg.where_primitives |->
                        IF cfg.where_primitives[p] \in Range(cfg.agg_primitives)
                        THEN wheresOf(i, cfg.where_primitives[p])
                        ELSE <<>>])])
        own   == SelectSeq(ident \o aggs, LAMBDA f : Depth(f) <= d - 1)
        transOf(prim) ==
            LET ins == SelectSeq(own,
                         LAMBDA f : Matches(FeatureType(eset, f), InputType(prim)))
            IN  [k \in DOMAIN ins |-> TransFeature(prim, ins[k])]
        trans == Flatten([p \in DOMAIN cfg.trans_primitives |->
                    transOf(cfg.trans_primitives[p])])
        above == SelectSeq(ParentRelationships(eset, e),
                        LAMBDA r : r.parent_entity \notin path)
        directsOf(r) ==
            LET ins == SelectSeq(FeaturesOf(eset, cfg, r.parent_entity, d - 1,
                                         path \cup {e}),
                              LAMBDA f : Depth(f) <= d - 1)
            IN  [k \in DOMAIN ins |-> DirectFeature(ins[k], e)]
        directs == Flatten([i \in DOMAIN above |-> directsOf(above[i])])
    IN  ident \o aggs \o trans \o directs \o wheres

\* features ordered by depth, equal depths keeping their order
RECURSIVE AtDepth(_, _, _)
AtDepth(fs, k, max) ==
    IF k > max THEN <<>>
    ELSE SelectSeq(fs, LAMBDA f : Depth(f) = k) \o AtDepth(fs, k + 1, max)

ReturnTypes == {"Numeric", "Categorical", "Id", "Ordinal", "Boolean"}

\* ft.dfs(entityset, target_entity, agg_primitives, trans_primitives,
\*        where_primitives, max_depth, ignore_variables, features_only=True)
DfsFeatures(eset, cfg) ==
    LET all  == FeaturesOf(eset, cfg, cfg.target_entity, cfg.max_depth, {})
        kept == SelectSeq(all,
                  LAMBDA f : /\ ~(f.kind = "identity"
                                  /\ f.var = Entity(eset, cfg.target_entity).index)
                             /\ FeatureType(eset, f) \in ReturnTypes
                             /\ Depth(f) <= cfg.max_depth)
    IN  AtDepth(kept, 0, cfg.max_depth)

----------------------------------------------------------------------------
(* (2) feature values: ft.calculate_feature_matrix *)

\* A cell of a feature matrix.  Integers and strings are kept as they are;
\* the real-valued statistics (mean, median, std, skew, and sums of them)
\* are kept as the statistic applied to its arguments.
Cell(op, n, str, args) == [op |-> op, n |-> n, s |-> str, args |-> args]
Num(n)        == Cell("num", n, "", <<>>)
Str(str)      == Cell("str", 0, str, <<>>)
Bool(b)       == Cell("bool", IF b THEN 1 ELSE 0, "", <<>>)
Sym(op, args) == Cell(op, 0, "", args)
NaNCell       == Cell("nan", 0, "", <<>>)

IsNaN(c) == c.op = "nan"

\* The raw values of these columns are strings, of the others integers
StringColumns == {"gender", "age_gender_bucket", "action_detail", "bucket_id", LabelColumn}

Wrap(col, v) == IF col \in StringColumns THEN Str(v) ELSE Num(v)

\* the order pandas sorts the category values in
CategoryOrder ==
    <<"-unknown-", "FEMALE", "MALE", "NDF", "US", "b1", "b2",
      "unknown", "view_search_results", "wishlist_content_update">>

Rank(c) ==
    IF c.op = "str"
    THEN CHOOSE k \in DOMAIN CategoryOrder : CategoryOrder[k] = c.s
    ELSE c.n

Occurrences(vals, v) == Cardinality({i \in DOMAIN vals : vals[i] = v})

\* the value that occurs most often, the smallest of them on a tie
ModeOf(vals) ==
    CHOOSE v \in Range(vals) :
        \A w \in Range(vals) :
            \/ Occurrences(vals, v) > Occurrences(vals, w)
            \/ Occurrences(vals, v) = Occurrences(vals, w) /\ Rank(v) <= Rank(w)

MinOf(vals) == CHOOSE v \in Range(vals) : \A w \in Range(vals) : v.n <= w.n
MaxOf(vals) == CHOOSE v \in Range(vals) : \A w \in Range(vals) : v.n >= w.n

AllNum(vals) == \A i \in DOMAIN vals : vals[i].op = "num"

\* the sum of cells
AddCells(vals) ==
    IF AllNum(vals) THEN Num(SumSeq([i \in DOMAIN vals |-> vals[i].n]))
    ELSE Sym("SUM", vals)

\* An aggregation primitive applied to the values of the related child rows.
\* A parent with no child row gets the primitive's default: 0 for count, the
\* missing value for every other primitive.
ApplyAgg(prim, vals) ==
    LET present == SelectSeq(vals, LAMBDA c : ~IsNaN(c))
    IN  IF vals = <<>> THEN (IF prim = "count" THEN Num(0) ELSE NaNCell)
        ELSE CASE prim = "last"       -> vals[Len(vals)]
               [] prim = "count"      -> Num(Len(vals))
               [] prim = "num_unique" -> Num(Cardinality(Range(present)))
               [] prim = "count_long_dreaming_sessions" ->
                     Num(count_long_dreaming_sessions([i \in DOMAIN present |-> present[i].n]))
               [] prim = "min"  -> IF present = <<>> THEN NaNCell ELSE MinOf(present)
               [] prim = "max"  -> IF present = <<>> THEN NaNCell ELSE MaxOf(present)
               [] prim = "mode" -> IF present = <<>> THEN NaNCell ELSE ModeOf(present)
               [] prim = "std"  -> IF Len(present) < 2 THEN NaNCell ELSE Sym("STD", present)
               [] prim = "skew" -> IF Len(present) < 3 THEN NaNCell ELSE Sym("SKEW", present)
               [] prim = "mean" -> IF present = <<>> THEN NaNCell ELSE Sym("MEAN", present)
               [] OTHER         -> IF present = <<>> THEN NaNCell ELSE Sym("MEDIAN", present)

\* a date-part transform of a parsed date
DatePart(prim, date) ==
    CASE prim = "hour"  -> Num(date.hour)
      [] prim = "day"   -> Num(date.day)
      [] prim = "week"  -> Num(date.week)
      [] prim = "month" -> Num(date.month)
      [] prim = "year"  -> Num(date.year)
      [] OTHER          -> Bool(date.weekday > 4)

Rows(eset, e) == Entity(eset, e).df.rows

\* The positions of the rows of the last entity of path that are linked,
\* relationship by relationship, to the row `row` of the first entity
RECURSIVE RowsBelow(_, _, _)
RowsBelow(eset, row, path) ==
    LET r     == Head(path)
        rows  == Rows(eset, r.child_entity)
        all   == [i \in DOMAIN rows |-> i]
        mine  == SelectSeq(all,
                    LAMBDA i : rows[i][r.child_variable] = row[r.parent_variable])
    IN  IF Len(path) = 1 THEN mine
        ELSE LET last  == path[Len(path)].child_entity
                 lrows == Rows(eset, last)
                 lall  == [i \in DOMAIN lrows |-> i]
             IN  SelectSeq(lall,
                    LAMBDA j : \E k \in DOMAIN mine :
                        j \in Range(RowsBelow(eset, rows[mine[k]], Tail(path))))

PathTo(eset, e, child) ==
    LET below == BackwardPaths(eset, e)
    IN  below[CHOOSE i \in DOMAIN below : below[i].entity = child].path

\* The value of feature f for row i of its entity.  A cumulative sum runs over
\* every row of the entity, in row order, up to row i.
RECURSIVE Evaluate(_, _, _)
Evaluate(eset, f, i) ==
    LET row == Rows(eset, f.entity)[i]
    IN  CASE f.kind = "identity" -> Wrap(f.var, row[f.var])
          [] f.kind = "direct" ->
                LET parent == f.base[1].entity
                    rels   == ParentRelationships(eset, f.entity)
                    r      == rels[CHOOSE k \in DOMAIN rels :
                                      rels[k].parent_entity = parent]
                    prows  == Rows(eset, parent)
                    hits   == {j \in DOMAIN prows :
                                  prows[j][r.parent_variable] = row[r.child_variable]}
                IN  IF hits = {} THEN NaNCell
                    ELSE Evaluate(eset, f.base[1], CHOOSE j \in hits : TRUE)
          [] f.kind = "agg" ->
                LET child  == f.base[1].entity
                    crows  == Rows(eset, child)
                    linked == RowsBelow(eset, row, PathTo(eset, f.entity, child))
                    kept   == IF f.where = NoWhere THEN linked
                              ELSE SelectSeq(linked,
                                     LAMBDA j : crows[j][f.where[1].var] = f.where[1].value)
                IN  ApplyAgg(f.prim,
                             [k \in DOMAIN kept |-> Evaluate(eset, f.base[1], kept[k])])
          [] OTHER ->
                IF f.prim = "cum_sum"
                THEN LET upto == [j \in 1..i |-> Evaluate(eset, f.base[1], j)]
                     IN  IF IsNaN(upto[i]) THEN NaNCell
                         ELSE AddCells(SelectSeq(upto, LAMBDA c : ~IsNaN(c)))
                ELSE DatePart(f.prim, row[f.base[1].var])

NoMatrix == [columns |-> <<>>, index |-> <<>>, rows |-> <<>>]

\* a feature matrix with rows only for the target rows that have a child row
CalculateFeatureMatrixOfLinkedRows(features, eset) ==
    IF features = <<>> THEN NoMatrix
    ELSE
    LET target == features[1].entity
        trows  == Rows(eset, target)
        ids    == ColumnValues(Entity(eset, target).df, Entity(eset, target).index)
        order  == SelectSeq(ArgSort(ids),
                      LAMBDA i : \E k \in DOMAIN eset.relationships :
                          LET r == eset.relationships[k]
                          IN  /\ r.parent_entity = target
                              /\ \E j \in DOMAIN Rows(eset, r.child_entity) :
                                    Rows(eset, r.child_entity)[j][r.child_variable] =
                                        trows[i][r.parent_variable])
        names  == FeatureNames(features)
    IN  [columns |-> names,
         index   |-> [k \in DOMAIN order |-> ids[order[k]]],
         rows    |-> [k \in DOMAIN order |->
                        [c \in Range(names) |->
                            Evaluate(eset,
                                     features[CHOOSE x \in DOMAIN names : names[x] = c],
                                     order[k])]]]

\* ft.calculate_feature_matrix(features, entityset): one row per row of the
\* target entity, in ascending order of its index, one column per feature
CalculateFeatureMatrix(features, eset) ==
    IF features = <<>> THEN NoMatrix
    ELSE
    LET target == features[1].entity
        ids    == ColumnValues(Entity(eset, target).df, Entity(eset, target).index)
        order  == ArgSort(ids)
        names  == FeatureNames(features)
    IN  [columns |-> names,
         index   |-> [k \in DOMAIN order |-> ids[order[k]]],
         rows    |-> [k \in DOMAIN order |->
                        [c \in Range(names) |->
                            Evaluate(eset,
                                     features[CHOOSE x \in DOMAIN names : names[x] = c],
                                     order[k])]]]

----------------------------------------------------------------------------
(* (2) the primitives cell and the synthesis configurations *)

\* es['sessions']['action_detail'].interesting_values = [...]
InterestingActionDetails == <<"view_search_results", "wishlist_content_update">>

SetInterestingValues(eset, entity_id, col, values) ==
    [eset EXCEPT !.entities =
        [i \in DOMAIN @ |->
            IF @[i].id = entity_id
            THEN [@[i] EXCEPT !.interesting_values[col] = values]
            ELSE @[i]]]

\* the arguments of the features_only call of the primitives cell
ExampleConfig ==
    [target_entity    |-> "users",
     agg_primitives   |-> <<"count_long_dreaming_sessions">>,
     trans_primitives |-> <<>>,
     where_primitives |-> <<"count_long_dreaming_sessions">>,
     max_depth        |-> 1,
     ignore_variables |-> [e \in {"sessions"} |-> {"action", "action_type", "device_type"}]]

aggregations ==
    <<"last", "num_unique", "skew", "min", "mean", "count", "std", "max", "median", "mode">>

transformations ==
    <<"hour", "day", "week", "month", "year", "is_weekend", "cum_sum">>

\* the arguments of the synthesis call; where_primitives is left to its
\* default, count
SynthesisConfig ==
    [target_entity    |-> "users",
     agg_primitives   |-> aggregations,
     trans_primitives |-> transformations,
     where_primitives |-> <<"count">>,
     max_depth        |-> 2,
     ignore_variables |-> [e \in {"sessions", "users"} |->
                              IF e = "sessions" THEN {"data_id"} ELSE {"id"}]]

\* the primitives cell: the two primitives are defined, the interesting values
\* are set on the training entity set only, and the example feature
\* definitions are listed
PrimitivesCell ==
    /\ pc = "related"
    /\ es' = SetInterestingValues(es, "sessions", "action_detail",
                                  InterestingActionDetails)
    /\ feature_definitions' = DfsFeatures(es', ExampleConfig)
    /\ pc' = "primitives"
    /\ UNCHANGED <<fileVars, users_df, users_test_df, buckets_df, sessions_df, targets,
                   es_test, feature_matrix, feature_matrix_test,
                   saved_train_csv, saved_test_csv, raised>>

----------------------------------------------------------------------------
(* (4) the model-selection notebook *)

ResponseVariable == "country_destination"

\* h2o.import_file(path): an H2OFrame with the columns of the file; the
\* columns of the label-encoded files are parsed as integers
ImportFile(file) ==
    [names |-> file.columns,
     types |-> [c \in Range(file.columns) |-> "int"],
     rows  |-> file.rows]

NoH2OFrame == [names |-> <<>>, types |-> <<>>, rows |-> <<>>]

\* H2OFrame.columns: a new list of the column names
Columns(frame) == frame.names

\* list.remove(x): the list without the first occurrence of x
RECURSIVE RemoveFirst(_, _)
RemoveFirst(list, x) ==
    IF list = <<>> THEN <<>>
    ELSE IF Head(list) = x THEN Tail(list)
         ELSE <<Head(list)>> \o RemoveFirst(Tail(list), x)

\* frame[col] = frame[col].asfactor()
AsFactor(frame, col) == [frame EXCEPT !.types[col] = "enum"]

\* the variable selection cell: list.remove raises ValueError when the
\* response is not a column
SelectVariablesCell ==
    /\ ms_pc = "train_imported"
    /\ IF ResponseVariable \in Range(Columns(X_train))
       THEN /\ train_variables' = RemoveFirst(Columns(X_train), ResponseVariable)
            /\ X_train' = AsFactor(X_train, ResponseVariable)
            /\ defined' = defined \cup {"train_variables", "response_variable",
                                        "unrelated_variables", "variable"}
            /\ ms_raised' = ""
            /\ ms_pc' = "selected"
       ELSE /\ train_variables' = Columns(X_train)
            /\ X_train' = X_train
            /\ defined' = defined \cup {"train_variables", "response_variable",
                                        "unrelated_variables", "variable"}
            /\ ms_raised' = "ValueError"
            /\ ms_pc' = "error"
    /\ UNCHANGED <<training_csv, testing_csv, X_test, aml, lb, saved_models,
                   model_path, model>>

\* the values a row of features may take, and the models over them
RowValues == {1, 2}

Model(id, label_of) == [model_id |-> id, label_of |-> label_of]

NoModel == Model("", <<>>)

ModelIds == {"GBM_1", "GLM_1"}

Models == {Model(id, f) : id \in ModelIds, f \in [RowValues -> Labels]}

\* the leaderboards an AutoML run may end with: models with different ids,
\* best first
Leaderboards ==
    {board \in SeqsUpTo(Models, Cardinality(ModelIds)) :
        /\ board # <<>>
        /\ \A i, j \in DOMAIN board : board[i].model_id = board[j].model_id => i = j}

NoAutoML == [seed |-> 0, nfolds |-> 0, max_runtime_secs |-> 0,
             x |-> <<>>, y |-> "", leaderboard |-> <<>>]

SEED == 42

\* H2OAutoML(nfolds=5, max_runtime_secs=10000, ..., seed=SEED)
NewAutoML == [NoAutoML EXCEPT !.seed = SEED, !.nfolds = 5, !.max_runtime_secs = 10000]

\* aml.leader: the first model of the leaderboard
Leader(a) == a.leaderboard[1]

\* model.predict(frame): one label per row
Predict(m, frame) == [i \in DOMAIN frame.rows |-> m.label_of[frame.rows[i]]]

\* the binary file h2o.save_model writes for a model
Serialize(m) == [format |-> "h2o-binary", model_id |-> m.model_id, scorer |-> m.label_of]

Deserialize(file) == Model(file.model_id, file.scorer)

NoFiles == [path \in {} |-> Serialize(NoModel)]

\* h2o.save_model(model, path, force): the file path/model_id is written
\* (an existing file only when force is set) and its path returned
SaveModel(files, m, dir, force) ==
    LET path == dir \o m.model_id
    IN  IF path \in DOMAIN files /\ ~force
        THEN [raised |-> "H2OValueError", files |-> files, path |-> ""]
        ELSE [raised |-> "",
              files  |-> [q \in (DOMAIN files) \cup {path} |->
                             IF q = path THEN Serialize(m) ELSE files[q]],
              path   |-> path]

\* h2o.load_model(path)
LoadModel(files, path) == Deserialize(files[path])

\* the names that must be bound for a cell's code to run
PredictCellNames == {"model", "test"}

ImportTrainCell ==
    /\ ms_pc = "start"
    /\ X_train' = ImportFile(training_csv)
    /\ defined' = defined \cup {"X_train"}
    /\ ms_pc' = "train_imported"
    /\ UNCHANGED <<training_csv, testing_csv, X_test, train_variables, aml, lb,
                   saved_models, model_path, model, ms_raised>>

AutoMLCell ==
    /\ ms_pc = "selected"
    /\ aml' = NewAutoML
    /\ defined' = defined \cup {"aml"}
    /\ ms_pc' = "configured"
    /\ UNCHANGED <<training_csv, testing_csv, X_train, X_test, train_variables, lb,
                   saved_models, model_path, model, ms_raised>>

\* training with every column of the frame as a predictor
TrainCellAllColumns ==
    /\ ms_pc = "configured"
    /\ \E board \in Leaderboards :
          aml' = [aml EXCEPT !.x = Columns(X_train), !.y = ResponseVariable,
                             !.leaderboard = board]
    /\ ms_pc' = "trained"
    /\ UNCHANGED <<training_csv, testing_csv, X_train, X_test, train_variables, lb,
                   saved_models, model_path, model, defined, ms_raised>>

\* aml.train(x=train_variables, y=response_variable, training_frame=X_train)
TrainCell ==
    /\ ms_pc = "configured"
    /\ \E board \in Leaderboards :
          aml' = [aml EXCEPT !.x = train_variables, !.y = ResponseVariable,
                             !.leaderboard = board]
    /\ ms_pc' = "trained"
    /\ UNCHANGED <<training_csv, testing_csv, X_train, X_test, train_variables, lb,
                   saved_models, model_path, model, defined, ms_raised>>

\* lb = aml.leaderboard
LeaderboardCell ==
    /\ ms_pc = "trained"
    /\ lb' = aml.leaderboard
    /\ defined' = defined \cup {"lb"}
    /\ ms_pc' = "ranked"
    /\ UNCHANGED <<training_csv, testing_csv, X_train, X_test, train_variables, aml,
                   saved_models, model_path, model, ms_raised>>

\* model_path = h2o.save_model(model=aml.leader, path='saved_models/', force=True)
SaveModelCell ==
    /\ ms_pc = "ranked"
    /\ LET saved == SaveModel(saved_models, Leader(aml), "saved_models/", TRUE)
       IN  /\ saved_models' = saved.files
           /\ model_path' = saved.path
    /\ defined' = defined \cup {"model_path"}
    /\ ms_pc' = "model_saved"
    /\ UNCHANGED <<training_csv, testing_csv, X_train, X_test, train_variables, aml, lb,
                   model, ms_raised>>

\* X_test = h2o.import_file(testing_filepath)
ImportTestCell ==
    /\ ms_pc = "model_saved"
    /\ X_test' = ImportFile(testing_csv)
    /\ defined' = defined \cup {"X_test"}
    /\ ms_pc' = "test_imported"
    /\ UNCHANGED <<training_csv, testing_csv, X_train, train_variables, aml, lb,
                   saved_models, model_path, model, ms_raised>>

\* model = h2o.load_model(model_path)
LoadModelCell ==
    /\ ms_pc = "test_imported"
    /\ model' = LoadModel(saved_models, model_path)
    /\ defined' = defined \cup {"model"}
    /\ ms_pc' = "model_loaded"
    /\ UNCHANGED <<training_csv, testing_csv, X_train, X_test, train_variables, aml, lb,
                   saved_models, model_path, ms_raised>>

\* predictions = model.predict(test): the name test is bound by no cell, so
\* the cell raises NameError and binds nothing
PredictCell ==
    /\ ms_pc = "model_loaded"
    /\ IF PredictCellNames \subseteq defined
       THEN /\ defined' = defined \cup {"predictions"}
            /\ ms_raised' = ""
            /\ ms_pc' = "predicted"
       ELSE /\ defined' = defined
            /\ ms_raised' = "NameError"
            /\ ms_pc' = "error"
    /\ UNCHANGED <<training_csv, testing_csv, X_train, X_test, train_variables, aml, lb,
                   saved_models, model_path, model>>

TrainingColumns ==
    {<<"age", "gender", ResponseVariable>>,
     <<ResponseVariable, "age", "gender">>,
     <<"age", ResponseVariable, "gender">>,
     <<"age", "gender">>}

\* the names the first two cells bind
InitialNames ==
    {"pd", "h2o", "H2OAutoML", "SEED", "training_filepath", "testing_filepath"}

SelectionIdle ==
    /\ training_csv = NoTable /\ testing_csv = NoTable
    /\ X_train = NoH2OFrame /\ X_test = NoH2OFrame
    /\ train_variables = <<>>
    /\ aml = NoAutoML /\ lb = <<>>
    /\ saved_models = NoFiles /\ model_path = ""
    /\ model = NoModel
    /\ defined = {}
    /\ ms_raised = ""
    /\ ms_pc = "idle"

----------------------------------------------------------------------------
(* (2) the input files explored *)

TrainIds == {1, 2}
TestIds  == {3, 4}

UserColumns ==
    <<"id", "date_account_created", "timestamp_first_active", "gender", "age",
      "age_gender_bucket", "signup_flow">>

Date(y, m, d, h, week, weekday) ==
    [year |-> y, month |-> m, day |-> d, hour |-> h, week |-> week, weekday |-> weekday]

\* One user per id; the attributes of a user are fixed by the id.
UserRow(id) ==
    [id |-> id,
     date_account_created   |-> IF id % 2 = 1 THEN Date(2014, 1, 4, 0, 1, 5)
                                ELSE Date(2014, 6, 30, 0, 27, 0),
     timestamp_first_active |-> IF id <= 2 THEN Date(2014, 1, 3, 23, 1, 4)
                                ELSE Date(2013, 12, 29, 7, 52, 6),
     gender                 |-> IF id \in {2, 4} THEN "unknown"
                                ELSE IF id = 3 THEN "MALE" ELSE "FEMALE",
     age                    |-> 20 + 10 * id,
     age_gender_bucket      |-> IF id = 4 THEN "b2" ELSE "b1",
     signup_flow            |-> IF id % 2 = 1 THEN 0 ELSE 3]

LabelledUserRow(id, label) ==
    [c \in (DOMAIN UserRow(id)) \cup {LabelColumn} |->
        IF c = LabelColumn THEN label ELSE UserRow(id)[c]]

TrainFiles ==
    {Table(Append(UserColumns, LabelColumn),
           [i \in DOMAIN ids |-> LabelledUserRow(ids[i], label_of[ids[i]])]) :
        ids \in SeqsUpTo(TrainIds, MaxUsers) \ {<<>>}, label_of \in [TrainIds -> Labels]}

TestFiles ==
    {Table(UserColumns, [i \in DOMAIN ids |-> UserRow(ids[i])]) :
        ids \in SeqsUpTo(TestIds, MaxUsers) \ {<<>>}}

SessionColumns == <<"user_id", "action_detail", "secs_elapsed">>

SessionRow(user, detail, secs) ==
    [user_id |-> user, action_detail |-> detail, secs_elapsed |-> secs]

SessionRows ==
    {SessionRow(1, "view_search_results", 3600),
     SessionRow(1, "-unknown-", 0),
     SessionRow(3, "wishlist_content_update", 3700)}

SessionFiles ==
    {Table(SessionColumns, rows) : rows \in SeqsUpTo(SessionRows, MaxSessions)}

BucketColumns == <<"bucket_id", "US">>

BucketRow(id, us) == [bucket_id |-> id, US |-> us]

BucketFiles ==
    {Table(BucketColumns, <<BucketRow("b1", 10), BucketRow("b2", 0)>>),
     Table(BucketColumns, <<BucketRow("b1", 10), BucketRow("b1", 0)>>)}

\* the data loading cell
LoadCell ==
    /\ pc = "start"
    /\ users_df' = LoadUsers(train_users_csv)
    /\ users_test_df' = LoadTestUsers(test_users_ops_csv)
    /\ buckets_df' = ReadCsv(age_gender_bkts_csv)
    /\ sessions_df' = ReadCsv(sessions_csv)
    /\ targets' = LoadTargets(train_users_csv)
    /\ pc' = "loaded"
    /\ UNCHANGED <<fileVars, es, es_test, feature_definitions, feature_matrix,
                   feature_matrix_test, saved_train_csv, saved_test_csv, raised>>

\* ft.dfs(entityset=es, ...): the feature definitions and their matrix
SynthesisFeatures(eset) == DfsFeatures(eset, SynthesisConfig)

\* the synthesis cell keeping only the matrix of the pair ft.dfs returns
DfsCellKeepingExampleDefinitions ==
    /\ pc = "primitives"
    /\ feature_matrix' = CalculateFeatureMatrix(SynthesisFeatures(es), es)
    /\ pc' = "synthesized"
    /\ UNCHANGED <<fileVars, users_df, users_test_df, buckets_df, sessions_df, targets,
                   es, es_test, feature_definitions, feature_matrix_test,
                   saved_train_csv, saved_test_csv, raised>>

\* the synthesis cell
DfsCell ==
    /\ pc = "primitives"
    /\ feature_definitions' = SynthesisFeatures(es)
    /\ feature_matrix' = CalculateFeatureMatrix(feature_definitions', es)
    /\ pc' = "synthesized"
    /\ UNCHANGED <<fileVars, users_df, users_test_df, buckets_df, sessions_df, targets,
                   es, es_test, feature_matrix_test, saved_train_csv, saved_test_csv,
                   raised>>

\* the replay cell: the training feature definitions applied to es_test
ReplayCell ==
    /\ pc = "synthesized"
    /\ feature_matrix_test' = CalculateFeatureMatrix(feature_definitions, es_test)
    /\ pc' = "replayed"
    /\ UNCHANGED <<fileVars, users_df, users_test_df, buckets_df, sessions_df, targets,
                   es, es_test, feature_definitions, feature_matrix,
                   saved_train_csv, saved_test_csv, raised>>

\* the "unknown" marker that unknown_to_nan turns into the missing value
UnknownSentinel == Str("unknown")

\* utils.unknown_to_nan(df)
unknown_to_nan(df) ==
    [df EXCEPT !.rows =
        [k \in DOMAIN @ |->
            [c \in DOMAIN @[k] |->
                IF @[k][c] = UnknownSentinel THEN NaNCell ELSE @[k][c]]]]

\* the post-processing cell without its second line
PostProcessCellTrainOnly ==
    /\ pc = "replayed"
    /\ feature_matrix' = unknown_to_nan(feature_matrix)
    /\ pc' = "postprocessed"
    /\ UNCHANGED <<fileVars, users_df, users_test_df, buckets_df, sessions_df, targets,
                   es, es_test, feature_definitions, feature_matrix_test,
                   saved_train_csv, saved_test_csv, raised>>

\* the post-processing cell
PostProcessCell ==
    /\ pc = "replayed"
    /\ feature_matrix' = unknown_to_nan(feature_matrix)
    /\ feature_matrix_test' = unknown_to_nan(feature_matrix_test)
    /\ pc' = "postprocessed"
    /\ UNCHANGED <<fileVars, users_df, users_test_df, buckets_df, sessions_df, targets,
                   es, es_test, feature_definitions, saved_train_csv, saved_test_csv,
                   raised>>

\* df[col] = values with an array: set by position, as a new last column or
\* into the column of that name
SetColumn(df, col, values) ==
    [df EXCEPT
        !.columns = IF col \in Range(@) THEN @ ELSE Append(@, col),
        !.rows = [k \in DOMAIN @ |->
                    [c \in (DOMAIN @[k]) \cup {col} |->
                        IF c = col THEN values[k] ELSE @[k][c]]]]

\* to_csv writing the row index as a first column named id
ToCsvKeepingIndex(df) ==
    Table(<<"id">> \o df.columns,
          [k \in DOMAIN df.rows |->
              [c \in (DOMAIN df.rows[k]) \cup {"id"} |->
                  IF c = "id" THEN Num(df.index[k]) ELSE df.rows[k][c]]])

\* df.to_csv(path, index=None): the columns, without the row index
ToCsvNoIndex(df) == Table(df.columns, df.rows)

\* the save cell
SaveCell ==
    /\ pc = "postprocessed"
    /\ feature_matrix' = SetColumn(feature_matrix, LabelColumn,
                                   [k \in DOMAIN targets |-> Str(targets[k])])
    /\ saved_train_csv' = ToCsvNoIndex(feature_matrix')
    /\ saved_test_csv' = ToCsvNoIndex(feature_matrix_test)
    /\ pc' = "saved"
    /\ UNCHANGED <<fileVars, users_df, users_test_df, buckets_df, sessions_df, targets,
                   es, es_test, feature_definitions, feature_matrix_test, raised>>

\* The feature-engineering notebook as functions of its input files:
\* es when the synthesis cell runs
TrainingEntitySet(train_file, sessions_file, buckets_file) ==
    SetInterestingValues(
        AddRelationships(
            BuildEntitySet("bookings", LoadUsers(train_file), ReadCsv(sessions_file),
                           ReadCsv(buckets_file), TRUE).es,
            DeclaredRelationships),
        "sessions", "action_detail", InterestingActionDetails)

\* es_test when the replay cell runs
TestEntitySet(train_file, test_file, sessions_file, buckets_file) ==
    LET train == BuildEntitySet("bookings", LoadUsers(train_file), ReadCsv(sessions_file),
                                ReadCsv(buckets_file), TRUE)
    IN  AddRelationships(
            BuildEntitySet("bookings_test", LoadTestUsers(test_file), train.sessions,
                           ReadCsv(buckets_file), FALSE).es,
            DeclaredRelationships)

\* feature_matrix as the synthesis cell leaves it
TrainingMatrixOf(train_file, sessions_file, buckets_file) ==
    LET eset == TrainingEntitySet(train_file, sessions_file, buckets_file)
    IN  CalculateFeatureMatrix(SynthesisFeatures(eset), eset)

\* feature_matrix_test as the replay cell leaves it
TestMatrixOf(train_file, test_file, sessions_file, buckets_file) ==
    CalculateFeatureMatrix(
        SynthesisFeatures(TrainingEntitySet(train_file, sessions_file, buckets_file)),
        TestEntitySet(train_file, test_file, sessions_file, buckets_file))

\* ft.dfs called as at 301-307 but with max_depth=1
DepthOneConfig == [SynthesisConfig EXCEPT !.max_depth = 1]

ExampleUserIds == {1, 2, 4}

\* three users, in ascending or descending order of id
ExampleTrainFiles ==
    {Table(Append(UserColumns, LabelColumn),
           [i \in DOMAIN ids |-> LabelledUserRow(ids[i], "NDF")]) :
        ids \in {<<1, 2, 4>>, <<4, 2, 1>>}}

ExampleSessionRow(user) ==
    CASE user = 1 -> SessionRow(1, "view_search_results", 3600)
      [] user = 2 -> SessionRow(2, "-unknown-", 0)
      [] OTHER    -> SessionRow(user, "wishlist_content_update", 3700)

\* five sessions that reference exactly two of the three users
ExampleSessionFiles ==
    {Table(SessionColumns, [i \in DOMAIN users |-> ExampleSessionRow(users[i])]) :
        users \in {u \in [1..5 -> ExampleUserIds] : Cardinality(Range(u)) = 2}}

\* two buckets, each user in one of them
ExampleBucketFile ==
    Table(BucketColumns, <<BucketRow("b1", 10), BucketRow("b2", 0)>>)

\* the files are loaded, the entity set assembled and ft.dfs run at depth 1
SynthesisAtDepthOne ==
    /\ pc = "example"
    /\ users_df' = LoadUsers(train_users_csv)
    /\ buckets_df' = ReadCsv(age_gender_bkts_csv)
    /\ targets' = LoadTargets(train_users_csv)
    /\ es' = TrainingEntitySet(train_users_csv, sessions_csv, age_gender_bkts_csv)
    /\ sessions_df' = Entity(es', "sessions").df
    /\ feature_definitions' = DfsFeatures(es', DepthOneConfig)
    /\ feature_matrix' = CalculateFeatureMatrix(feature_definitions', es')
    /\ pc' = "example_done"
    /\ UNCHANGED <<fileVars, users_test_df, es_test, feature_matrix_test,
                   saved_train_csv, saved_test_csv, raised>>

NotebookIdle ==
    /\ train_users_csv = NoTable /\ test_users_ops_csv = NoTable
    /\ age_gender_bkts_csv = NoTable /\ sessions_csv = NoTable
    /\ users_df = NoTable /\ users_test_df = NoTable
    /\ buckets_df = NoTable /\ sessions_df = NoTable
    /\ targets = <<>>
    /\ es = NoEntitySet /\ es_test = NoEntitySet
    /\ feature_definitions = <<>>
    /\ feature_matrix = NoMatrix /\ feature_matrix_test = NoMatrix
    /\ saved_train_csv = NoTable /\ saved_test_csv = NoTable
    /\ raised = ""
    /\ pc = "idle"

----------------------------------------------------------------------------
(* Specifications *)

\* The submission cell, run on any raw test file with distinct keys and on
\* predictions produced in ascending key order.
InitSubmission ==
    /\ test_users_csv \in {f \in SeqsUpTo(Keys, MaxKeys) : IsInjective(f)}
    /\ predict_of \in [Range(test_users_csv) -> Labels]
    /\ predictions = [i \in DOMAIN test_users_csv |->
                         predict_of[SortedKeys(test_users_csv)[i]]]
    /\ answers = NoFrame
    /\ answers_csv = NoCsv
    /\ sub_pc = "predicted"
    /\ NotebookIdle /\ AngerIdle /\ LongIdle /\ SelectionIdle

NextSubmission == SubmissionCell /\ UNCHANGED <<nbVars, angerVars, longVars, msVars>>

SpecSubmission == InitSubmission /\ [][NextSubmission]_vars

\* anger_words_count called in the notebook's namespace
InitAnger ==
    /\ column \in SeqsUpTo(Texts, MaxRows)
    /\ anger_words \in KeywordLists
    /\ counts = Returned(<<>>)
    /\ anger_pc = "defined"
    /\ NotebookIdle /\ SubmissionIdle /\ LongIdle /\ SelectionIdle

NextAnger == CallAngerWordsCount /\ UNCHANGED <<nbVars, subVars, longVars, msVars>>

SpecAnger == InitAnger /\ [][NextAnger]_vars

\* count_long_dreaming_sessions called on any list of values
InitLong ==
    /\ seconds_elapsed \in SeqsUpTo(SecsValues, MaxVals)
    /\ long_sessions = 0
    /\ long_pc = "defined"
    /\ NotebookIdle /\ SubmissionIdle /\ AngerIdle /\ SelectionIdle

NextLong == CallCountLongDreamingSessions /\ UNCHANGED <<nbVars, subVars, angerVars, msVars>>

SpecLong == InitLong /\ [][NextLong]_vars

\* The feature-engineering notebook, its cells run once in order on any of
\* the explored input files; an exception ends the run.
Init ==
    /\ train_users_csv \in TrainFiles
    /\ test_users_ops_csv \in TestFiles
    /\ age_gender_bkts_csv \in BucketFiles
    /\ sessions_csv \in SessionFiles
    /\ users_df = NoTable /\ users_test_df = NoTable
    /\ buckets_df = NoTable /\ sessions_df = NoTable
    /\ targets = <<>>
    /\ es = NoEntitySet /\ es_test = NoEntitySet
    /\ feature_definitions = <<>>
    /\ feature_matrix = NoMatrix /\ feature_matrix_test = NoMatrix
    /\ saved_train_csv = NoTable /\ saved_test_csv = NoTable
    /\ raised = ""
    /\ pc = "start"
    /\ SubmissionIdle /\ AngerIdle /\ LongIdle /\ SelectionIdle

OthersIdle == UNCHANGED <<subVars, angerVars, longVars, msVars>>

Next ==
    \/ LoadCell /\ OthersIdle
    \/ EntitySetCell /\ OthersIdle
    \/ RelationshipsCell /\ OthersIdle
    \/ PrimitivesCell /\ OthersIdle
    \/ DfsCell /\ OthersIdle
    \/ ReplayCell /\ OthersIdle
    \/ PostProcessCell /\ OthersIdle
    \/ SaveCell /\ OthersIdle

Spec == Init /\ [][Next]_vars

\* The feature-engineering notebook with the entity set setup cell run as
\* written or with its two halves exchanged
NextDeclarationOrder ==
    \/ LoadCell /\ OthersIdle
    \/ EntitySetCell /\ OthersIdle
    \/ EntitySetCellTestFirst /\ OthersIdle
    \/ RelationshipsCell /\ OthersIdle
    \/ PrimitivesCell /\ OthersIdle
    \/ DfsCell /\ OthersIdle
    \/ ReplayCell /\ OthersIdle
    \/ PostProcessCell /\ OthersIdle
    \/ SaveCell /\ OthersIdle

SpecDeclarationOrder == Init /\ [][NextDeclarationOrder]_vars

\* The model-selection notebook, its cells run once in order; an exception
\* ends the run.  The files under saved_models/ may hold a model of an
\* earlier run.
InitSelection ==
    /\ training_csv \in {Table(cols, <<1, 2>>) : cols \in TrainingColumns}
    /\ testing_csv \in {Table(<<"age", "gender">>, rows) :
                            rows \in SeqsUpTo(RowValues, MaxRows)}
    /\ X_train = NoH2OFrame /\ X_test = NoH2OFrame
    /\ train_variables = <<>>
    /\ aml = NoAutoML /\ lb = <<>>
    /\ saved_models \in
          {NoFiles} \cup
          {[path \in {"saved_models/" \o m.model_id} |-> Serialize(m)] :
              m \in {Model("GBM_1", [v \in RowValues |-> "NDF"])}}
    /\ model_path = ""
    /\ model = NoModel
    /\ defined = InitialNames
    /\ ms_raised = ""
    /\ ms_pc = "start"
    /\ NotebookIdle /\ SubmissionIdle /\ AngerIdle /\ LongIdle

SelectionOthersIdle == UNCHANGED <<nbVars, subVars, angerVars, longVars>>

NextSelection ==
    \/ ImportTrainCell /\ SelectionOthersIdle
    \/ SelectVariablesCell /\ SelectionOthersIdle
    \/ AutoMLCell /\ SelectionOthersIdle
    \/ TrainCell /\ SelectionOthersIdle
    \/ LeaderboardCell /\ SelectionOthersIdle
    \/ SaveModelCell /\ SelectionOthersIdle
    \/ ImportTestCell /\ SelectionOthersIdle
    \/ LoadModelCell /\ SelectionOthersIdle
    \/ PredictCell /\ SelectionOthersIdle

SpecSelection == InitSelection /\ [][NextSelection]_vars

\* the same with every cell eventually run
SpecSelectionFair == SpecSelection /\ WF_vars(NextSelection)

\* Synthesis at depth 1 on three users, five sessions and two buckets
InitDepthOne ==
    /\ train_users_csv \in ExampleTrainFiles
    /\ test_users_ops_csv = NoTable
    /\ age_gender_bkts_csv = ExampleBucketFile
    /\ sessions_csv \in ExampleSessionFiles
    /\ users_df = NoTable /\ users_test_df = NoTable
    /\ buckets_df = NoTable /\ sessions_df = NoTable
    /\ targets = <<>>
    /\ es = NoEntitySet /\ es_test = NoEntitySet
    /\ feature_definitions = <<>>
    /\ feature_matrix = NoMatrix /\ feature_matrix_test = NoMatrix
    /\ saved_train_csv = NoTable /\ saved_test_csv = NoTable
    /\ raised = ""
    /\ pc = "example"
    /\ SubmissionIdle /\ AngerIdle /\ LongIdle /\ SelectionIdle

NextDepthOne == SynthesisAtDepthOne /\ OthersIdle

SpecDepthOne == InitDepthOne /\ [][NextDepthOne]_vars

----------------------------------------------------------------------------
(* Notions used in the statements below *)

\* the positions of the notebook at which the entity sets are complete
Assembled == {"related", "primitives", "synthesized", "replayed", "postprocessed", "saved"}

\* the positions between the load of the files and the save cell
Processing ==
    {"loaded", "entities", "related", "primitives", "synthesized", "replayed",
     "postprocessed", "error"}

StrictlyIncreasing(s) == \A i, j \in DOMAIN s : i < j => s[i] < s[j]

----------------------------------------------------------------------------
(* Claims *)

\* C1 (as claimed): for every order of rows in the raw test file, the i-th
\* prediction, produced in ascending key order, is written next to the i-th
\* smallest key: each label sits next to the user it was predicted for.
C1_PredictionNextToItsKey ==
    sub_pc = "written" =>
        /\ Len(answers_csv.rows) = Len(test_users_csv)
        /\ \A i \in DOMAIN answers_csv.rows :
              /\ answers_csv.rows[i].id = SortedKeys(test_users_csv)[i]
              /\ answers_csv.rows[i].country = predictions[i]
              /\ answers_csv.rows[i].country = predict_of[answers_csv.rows[i].id]

\* C4 (as claimed): count_long_dreaming_sessions([100, 4000, 3600, 3700])
\* returns 2.
C4_ReturnsTwo ==
    (long_pc = "called" /\ seconds_elapsed = <<100, 4000, 3600, 3700>>)
        => long_sessions = 2

\* C4 (amended): count_long_dreaming_sessions([100, 4000, 3600, 3700]) returns
\* 3: 3600 meets the inclusive threshold and is counted with 4000 and 3700.
C4_ReturnsThree ==
    (long_pc = "called" /\ seconds_elapsed = <<100, 4000, 3600, 3700>>)
        => long_sessions = 3

C4_Witness ==
    long_pc = "called" /\ seconds_elapsed = <<100, 4000, 3600, 3700>>

\* C5 (as claimed): anger_words_count, called in the notebook on the single
\* text "This is terrible and disgusting" with the keywords terrible and
\* disgusting, returns the count 2 and raises nothing.
C5_TerribleDisgustingCountsTwo ==
    (anger_pc = "called" /\ column = <<TerribleText>>
                         /\ anger_words = <<Terrible, Disgusting>>)
        => counts = Returned(<<2>>)


\* the label the raw training file gives to the user with this id
RawLabelOf(id) ==
    LET rows == train_users_csv.rows
    IN  rows[CHOOSE k \in DOMAIN rows : rows[k].id = id][LabelColumn]

\* C2: whatever the order of the rows of the raw training file, the label in
\* row i of the saved training matrix is the label the raw file gives to the
\* user whose features are in row i (the rows are in ascending id order).
C2_LabelOfRowIsLabelOfItsUser ==
    pc = "saved" =>
        /\ Len(saved_train_csv.rows) = Len(train_users_csv.rows)
        /\ StrictlyIncreasing(feature_matrix.index)
        /\ Range(feature_matrix.index) = Range(ColumnValues(train_users_csv, "id"))
        /\ \A i \in DOMAIN saved_train_csv.rows :
              /\ saved_train_csv.rows[i][LabelColumn] =
                    Str(RawLabelOf(feature_matrix.index[i]))
              /\ saved_train_csv.rows[i]["age"] =
                    Num(UserRow(feature_matrix.index[i]).age)

\* C2 witness: a raw file listing user 2 before user 1, with different labels,
\* has been processed and saved
C2_Witness ==
    /\ pc = "saved"
    /\ ColumnValues(train_users_csv, "id") = <<2, 1>>
    /\ ColumnValues(train_users_csv, LabelColumn) = <<"US", "NDF">>
    /\ ColumnValues(saved_train_csv, LabelColumn) = <<Str("NDF"), Str("US")>>

\* feature f reads column col, directly or through the features it is built on
RECURSIVE Mentions(_, _)
Mentions(f, col) ==
    \/ f.var = col
    \/ \E i \in DOMAIN f.where : f.where[i].var = col
    \/ \E i \in DOMAIN f.base : Mentions(f.base[i], col)

\* the raw training file with the labels replaced by those of label_of
Relabelled(file, label_of) ==
    Table(file.columns,
          [i \in DOMAIN file.rows |->
              [file.rows[i] EXCEPT ![LabelColumn] = label_of[file.rows[i].id]]])

LabelFree(eset) ==
    \A i \in DOMAIN eset.entities :
        /\ ~HasColumn(eset.entities[i].df, LabelColumn)
        /\ \A k \in DOMAIN eset.entities[i].df.rows :
              LabelColumn \notin DOMAIN eset.entities[i].df.rows[k]

\* C3: from the load of the files until the save cell, the label column is in
\* no table of either entity set, in no feature matrix and in no feature
\* definition; the save cell adds it to the training matrix only, as its last
\* column; and the training matrix that synthesis computes is the same for
\* every labelling of the raw training file.
C3_LabelIsolation ==
    /\ pc \in Processing =>
          /\ ~HasColumn(users_df, LabelColumn)
          /\ LabelFree(es) /\ LabelFree(es_test)
          /\ LabelColumn \notin Range(feature_matrix.columns)
          /\ LabelColumn \notin Range(feature_matrix_test.columns)
          /\ \A i \in DOMAIN feature_definitions :
                ~Mentions(feature_definitions[i], LabelColumn)
          /\ saved_train_csv = NoTable /\ saved_test_csv = NoTable
    /\ pc = "synthesized" =>
          \A label_of \in [Range(ColumnValues(train_users_csv, "id")) -> Labels] :
              feature_matrix = TrainingMatrixOf(Relabelled(train_users_csv, label_of),
                                                sessions_csv, age_gender_bkts_csv)
    /\ pc = "saved" =>
          /\ saved_train_csv.columns[Len(saved_train_csv.columns)] = LabelColumn
          /\ LabelColumn \notin Range(SubSeq(saved_train_csv.columns, 1,
                                             Len(saved_train_csv.columns) - 1))
          /\ LabelColumn \notin Range(saved_test_csv.columns)
          /\ LabelFree(es) /\ LabelFree(es_test)
          /\ \A i \in DOMAIN feature_definitions :
                ~Mentions(feature_definitions[i], LabelColumn)

\* C3 witness: synthesis has run on a training file of two users with
\* different labels
C3_Witness ==
    /\ pc = "synthesized"
    /\ ColumnValues(train_users_csv, LabelColumn) = <<"US", "NDF">>
    /\ Len(feature_matrix.rows) = 2
    /\ Len(feature_definitions) > 10

\* C6: the test matrix is computed from the feature definitions of the
\* training synthesis, so once both matrices exist they have the same feature
\* columns in the same order, and the saved training matrix has those columns
\* followed by the label column alone.
C6_ColumnAlignment ==
    /\ pc \in {"synthesized", "replayed", "postprocessed", "saved"} =>
          feature_definitions = SynthesisFeatures(es)
    /\ pc \in {"replayed", "postprocessed"} =>
          /\ feature_matrix_test.columns = FeatureNames(feature_definitions)
          /\ feature_matrix.columns = feature_matrix_test.columns
    /\ pc = "saved" =>
          /\ saved_test_csv.columns = FeatureNames(feature_definitions)
          /\ saved_train_csv.columns = Append(saved_test_csv.columns, LabelColumn)
          /\ IsInjective(saved_train_csv.columns)
          /\ \A i \in DOMAIN saved_test_csv.rows :
                DOMAIN saved_test_csv.rows[i] = Range(saved_test_csv.columns)
          /\ \A i \in DOMAIN saved_train_csv.rows :
                DOMAIN saved_train_csv.rows[i] = Range(saved_train_csv.columns)

\* C6 witness: both matrices are saved, with aggregated and transformed columns
C6_Witness ==
    /\ pc = "saved"
    /\ Len(saved_test_csv.rows) = 2 /\ Len(saved_train_csv.rows) = 2
    /\ "LAST(sessions.CUM_SUM(secs_elapsed))" \in Range(saved_test_csv.columns)
    /\ "buckets.MAX(users.age)" \in Range(saved_train_csv.columns)

\* one of the three key columns of the input files holds a value twice
DuplicateParentKey ==
    \/ ~IsInjective(ColumnValues(train_users_csv, "id"))
    \/ ~IsInjective(ColumnValues(test_users_ops_csv, "id"))
    \/ ~IsInjective(ColumnValues(age_gender_bkts_csv, "bucket_id"))

ParentKeysUnique(eset) ==
    \A i \in DOMAIN eset.relationships :
        LET r == eset.relationships[i]
        IN  /\ HasEntity(eset, r.parent_entity)
            /\ IsInjective(ColumnValues(Entity(eset, r.parent_entity).df,
                                        r.parent_variable))

\* C7: in both entity sets every relationship's parent column (users.id,
\* buckets.bucket_id) holds unique values; input files with a duplicate in a
\* parent column end the notebook in an error before any relationship is
\* declared, with no feature definition, no feature matrix and nothing saved.
C7_ParentColumnsUnique ==
    /\ ParentKeysUnique(es) /\ ParentKeysUnique(es_test)
    /\ pc \in Assembled =>
          /\ es.relationships = DeclaredRelationships
          /\ es_test.relationships = DeclaredRelationships
    /\ DuplicateParentKey =>
          /\ pc \in {"start", "loaded", "error"}
          /\ es.relationships = <<>> /\ es_test.relationships = <<>>
          /\ feature_definitions = <<>>
          /\ feature_matrix = NoMatrix /\ feature_matrix_test = NoMatrix
          /\ saved_train_csv = NoTable /\ saved_test_csv = NoTable
    /\ pc = "error" <=> raised # ""
    /\ pc = "error" => DuplicateParentKey /\ raised = "AssertionError"

\* C7 witness: a bucket file with a repeated bucket_id has been rejected
C7_Witness ==
    /\ pc = "error" /\ raised = "AssertionError"
    /\ ~IsInjective(ColumnValues(age_gender_bkts_csv, "bucket_id"))
    /\ IsInjective(ColumnValues(train_users_csv, "id"))
    /\ IsInjective(ColumnValues(test_users_ops_csv, "id"))

HasSurrogateKey(eset) ==
    LET sessions == Entity(eset, "sessions")
    IN  /\ sessions.index = "data_id"
        /\ HasColumn(sessions.df, "data_id")
        /\ StrictlyIncreasing(ColumnValues(sessions.df, "data_id"))
        /\ IsInjective(ColumnValues(sessions.df, "data_id"))
        /\ Len(sessions.df.rows) = Len(sessions_csv.rows)

\* C8: the sessions file has no data_id column; in each entity set the sessions
\* table has the index column data_id, with values strictly increasing in row
\* order (so unique), and each entity set has its sessions table, with that
\* column, before it has any relationship.
C8_SurrogateKey ==
    /\ ~HasColumn(sessions_csv, "data_id")
    /\ \A eset \in {es, es_test} :
          /\ HasEntity(eset, "sessions") => HasSurrogateKey(eset)
          /\ eset.relationships # <<>> => HasEntity(eset, "sessions")
    /\ pc = "entities" =>
          /\ HasEntity(es, "sessions") /\ HasEntity(es_test, "sessions")
          /\ es.relationships = <<>> /\ es_test.relationships = <<>>

\* C8 witness: both entity sets hold a sessions table of two rows and no
\* relationship yet
C8_Witness ==
    /\ pc = "entities"
    /\ Len(sessions_csv.rows) = 2
    /\ ColumnValues(Entity(es, "sessions").df, "data_id") = <<0, 1>>
    /\ ColumnValues(Entity(es_test, "sessions").df, "data_id") = <<0, 1>>

\* the sessions file with another duration in every row of the users in ids
WithSessionsChanged(file, ids) ==
    Table(file.columns,
          [i \in DOMAIN file.rows |->
              IF file.rows[i].user_id \in ids
              THEN [file.rows[i] EXCEPT !.secs_elapsed = @ + 1]
              ELSE file.rows[i]])

\* a users file with another age in every row
WithAgesChanged(file) ==
    Table(file.columns,
          [i \in DOMAIN file.rows |-> [file.rows[i] EXCEPT !.age = @ + 1]])

Declarations(eset) ==
    [entities |->
        [i \in DOMAIN eset.entities |->
            [id |-> eset.entities[i].id,
             index |-> eset.entities[i].index,
             created_index |-> eset.entities[i].created_index,
             columns |-> eset.entities[i].df.columns,
             variable_types |-> eset.entities[i].variable_types,
             interesting_values |-> eset.entities[i].interesting_values]],
     relationships |-> eset.relationships]

\* tables, index columns, variable types and relationships of an entity set
TablesAndRelationships(eset) ==
    [entities |->
        [i \in DOMAIN eset.entities |->
            [id |-> eset.entities[i].id,
             index |-> eset.entities[i].index,
             columns |-> eset.entities[i].df.columns,
             variable_types |-> eset.entities[i].variable_types]],
     relationships |-> eset.relationships]

\* C10 (as claimed): the two entity sets differ in nothing but the rows of
\* their users table.
C10_DifferOnlyInUsersTable ==
    pc \in Assembled => Declarations(es) = Declarations(es_test)

\* C10 (amended): the two entity sets have the same three tables with the same
\* columns, index columns and variable types and the same two relationships;
\* besides the rows of the users table they differ in the sessions index,
\* which only the training entity set creates (make_index), and in the
\* interesting values of sessions.action_detail, which only the training
\* entity set gets.
C10_SameTablesAndRelationships ==
    pc \in Assembled =>
        /\ TablesAndRelationships(es) = TablesAndRelationships(es_test)
        /\ [i \in DOMAIN es.entities |-> es.entities[i].id] =
              <<"users", "sessions", "buckets">>
        /\ es.relationships = DeclaredRelationships
        /\ Entity(es, "users").variable_types["signup_flow"] = "Categorical"
        /\ Entity(es, "sessions").created_index = "data_id"
        /\ Entity(es_test, "sessions").created_index = ""
        /\ pc # "related" =>
              /\ Entity(es, "sessions").interesting_values["action_detail"] =
                    InterestingActionDetails
              /\ Entity(es_test, "sessions").interesting_values["action_detail"] = <<>>
        /\ \A e \in {"users", "buckets"} :
              /\ Entity(es, e).created_index = Entity(es_test, e).created_index
              /\ Entity(es, e).interesting_values = Entity(es_test, e).interesting_values
        /\ Entity(es, "sessions").df = Entity(es_test, "sessions").df
        /\ Entity(es, "buckets").df = Entity(es_test, "buckets").df

\* C10 witness: both entity sets are assembled and the interesting values set
C10_Witness ==
    /\ pc = "primitives"
    /\ Len(es.entities) = 3 /\ Len(es_test.entities) = 3
    /\ Len(es.relationships) = 2 /\ Len(es_test.relationships) = 2
    /\ Entity(es, "users").df # Entity(es_test, "users").df

\* matrix `after` is matrix `before` with every "unknown" marker replaced by
\* the missing value and every other cell, row and column as it was
MarkersOnlyReplaced(before, after) ==
    /\ after.columns = before.columns
    /\ after.index = before.index
    /\ DOMAIN after.rows = DOMAIN before.rows
    /\ \A k \in DOMAIN before.rows :
          /\ DOMAIN after.rows[k] = DOMAIN before.rows[k]
          /\ \A c \in DOMAIN before.rows[k] :
                LET old == before.rows[k][c]
                    new == after.rows[k][c]
                IN  /\ old = UnknownSentinel => IsNaN(new)
                    /\ old # UnknownSentinel => new = old
                    /\ old = Num(0) => new = Num(0)
                    /\ IsNaN(old) => IsNaN(new)
                    /\ IsNaN(new) => IsNaN(old) \/ old = UnknownSentinel

\* C11: the post-processing cell replaces, in the training and in the test
\* matrix, every cell holding the "unknown" marker by the missing value and
\* changes no other cell: a zero stays zero, a missing cell stays missing, and
\* nothing else becomes missing.
C11_OnlyMarkersBecomeMissing ==
    [][pc = "replayed" /\ pc' = "postprocessed" =>
          /\ MarkersOnlyReplaced(feature_matrix, feature_matrix')
          /\ MarkersOnlyReplaced(feature_matrix_test, feature_matrix_test')]_vars

\* C11 witness: post-processing has run on matrices that held the marker (the
\* gender of users 2 and 4), a zero aggregate and a missing aggregate
C11_Witness ==
    /\ pc = "postprocessed"
    /\ \E k \in DOMAIN feature_matrix.rows :
          /\ feature_matrix.index[k] = 2
          /\ IsNaN(feature_matrix.rows[k]["gender"])
          /\ IsNaN(feature_matrix.rows[k]["MIN(sessions.secs_elapsed)"])
    /\ \E k \in DOMAIN feature_matrix.rows :
          /\ feature_matrix.index[k] = 1
          /\ feature_matrix.rows[k]["gender"] = Str("FEMALE")
          /\ feature_matrix.rows[k]["MIN(sessions.secs_elapsed)"] = Num(0)
    /\ \E k \in DOMAIN feature_matrix_test.rows :
          /\ feature_matrix_test.index[k] = 4
          /\ IsNaN(feature_matrix_test.rows[k]["gender"])

\* the columns of a users matrix that aggregate the user's sessions
SessionAggregateColumns(features) ==
    {FeatureName(features[i]) : i \in {j \in DOMAIN features :
        /\ features[j].kind = "agg"
        /\ features[j].entity = "users"
        /\ features[j].base[1].entity = "sessions"}}

HasSession(id) == \E j \in DOMAIN sessions_csv.rows : sessions_csv.rows[j].user_id = id

\* the matrix has one row per row of the users table of eset, in ascending
\* order of id, and a user without session has every session aggregate missing
RowPerUser(matrix, features, eset) ==
    LET ids == ColumnValues(Entity(eset, "users").df, "id")
    IN  /\ Len(matrix.rows) = Len(ids)
        /\ Len(matrix.index) = Len(ids)
        /\ Range(matrix.index) = Range(ids)
        /\ StrictlyIncreasing(matrix.index)
        /\ \A k \in DOMAIN matrix.rows :
              /\ DOMAIN matrix.rows[k] = Range(matrix.columns)
              /\ ~HasSession(matrix.index[k]) =>
                    \A c \in SessionAggregateColumns(features) :
                        IsNaN(matrix.rows[k][c])

\* C12: whatever the sessions table, the matrix of synthesis (and of the
\* replay) has exactly one row per row of the users table, and a user without
\* any session has a row whose session aggregates are missing; synthesis at
\* depth 1 on three users, five sessions referencing two of them and two
\* buckets gives three rows.
C12_OneRowPerUser ==
    /\ pc \in {"example_done", "synthesized", "replayed", "postprocessed"} =>
          /\ RowPerUser(feature_matrix, feature_definitions, es)
          /\ Len(feature_matrix.rows) = Len(train_users_csv.rows)
          /\ SessionAggregateColumns(feature_definitions) # {}
    /\ pc \in {"replayed", "postprocessed"} =>
          /\ RowPerUser(feature_matrix_test, feature_definitions, es_test)
          /\ Len(feature_matrix_test.rows) = Len(test_users_ops_csv.rows)
    /\ pc = "example_done" =>
          /\ Len(feature_matrix.rows) = Cardinality(ExampleUserIds)
          /\ \A i \in DOMAIN feature_definitions : Depth(feature_definitions[i]) <= 1

\* C12 witness: depth-1 synthesis has run on users 4, 2, 1 with sessions of
\* users 1 and 4 only; user 2 has a row with a missing session aggregate,
\* user 1 a row with a value there
C12_Witness ==
    /\ pc = "example_done"
    /\ ColumnValues(train_users_csv, "id") = <<4, 2, 1>>
    /\ Len(sessions_csv.rows) = 5
    /\ ~HasSession(2) /\ HasSession(1) /\ HasSession(4)
    /\ feature_matrix.index = <<1, 2, 4>>
    /\ IsNaN(feature_matrix.rows[2]["LAST(sessions.secs_elapsed)"])
    /\ feature_matrix.rows[1]["LAST(sessions.secs_elapsed)"] = Num(3600)
    /\ feature_matrix.rows[2]["age"] = Num(40)

\* the cells from the load of the model on have run
ModelReloaded == ms_pc \in {"model_loaded", "predicted"} \/ model # NoModel

\* the predict cell has run
PredictCellRan ==
    ms_pc = "predicted" \/ (ms_pc = "error" /\ model # NoModel)

\* the file at model_path holds the leader, and the model loaded from it
\* predicts for every row what the leader in memory predicts
ReloadedModelIsLeader ==
    /\ model_path # "" =>
          /\ model_path \in DOMAIN saved_models
          /\ Deserialize(saved_models[model_path]) = Leader(aml)
    /\ ModelReloaded =>
          /\ \A v \in RowValues : model.label_of[v] = Leader(aml).label_of[v]
          /\ Predict(model, X_test) = Predict(Leader(aml), X_test)

\* C13 (as claimed): the model loaded back from the returned path predicts
\* for every row what the saved leader predicts, and once the predict cell has
\* run the predictions that go to the submission are bound, computed by the
\* reloaded model.
C13_PredictionsOfReloadedModel ==
    /\ ReloadedModelIsLeader
    /\ PredictCellRan => "predictions" \in defined /\ ms_raised = ""

\* the steps done so far were done in the order train, leaderboard, save,
\* import of the test set from testing_filepath, reload
InOrderSoFar ==
    /\ lb # <<>> => aml.leaderboard # <<>> /\ lb = aml.leaderboard
    /\ model_path # "" => lb # <<>>
    /\ X_test # NoH2OFrame => model_path # "" /\ X_test = ImportFile(testing_csv)
    /\ model # NoModel => X_test = ImportFile(testing_csv) /\ model_path # ""
    /\ "predictions" \in defined => model # NoModel

\* C14 (as claimed): the cells run in the order train, leaderboard, save,
\* reload, scoring, and a run on a training file that has the response column
\* eventually gets past the scoring of the test set to the submission cell.
C14_RunReachesSubmission ==
    /\ []InOrderSoFar
    /\ (ResponseVariable \in Range(training_csv.columns)) => <>(ms_pc = "predicted")

\* C15: the written submission has the two columns id and country, in this
\* order; the answers frame is indexed by the id and holds the column country
\* alone; every key of the raw test file is in exactly one row; and with as
\* many predictions as keys every row has a label, none missing.
C15_SubmissionShape ==
    sub_pc = "written" =>
        /\ answers_csv.header = <<"id", "country">>
        /\ \A i \in DOMAIN answers_csv.rows :
              DOMAIN answers_csv.rows[i] = {"id", "country"}
        /\ DOMAIN answers = {"index", "country"}
        /\ answers.index = [i \in DOMAIN answers_csv.rows |-> answers_csv.rows[i].id]
        /\ Len(answers_csv.rows) = Len(test_users_csv)
        /\ \A k \in Range(test_users_csv) :
              Cardinality({i \in DOMAIN answers_csv.rows :
                              answers_csv.rows[i].id = k}) = 1
        /\ Len(predictions) = Len(test_users_csv) =>
              \A i \in DOMAIN answers_csv.rows :
                  /\ answers_csv.rows[i].country # NaN
                  /\ answers_csv.rows[i].country \in Labels

\* C15 witness: a submission for three keys, listed unsorted in the raw file,
\* has been written
C15_Witness ==
    /\ sub_pc = "written"
    /\ test_users_csv = <<3, 1, 2>>
    /\ Len(predictions) = 3
    /\ Len(answers_csv.rows) = 3

\* for each row, the sum over the keywords of the occurrences of the keyword
\* in the row's text, both taken in lower case
CaseInsensitiveCounts(col, words) ==
    [r \in DOMAIN col |->
        SumSeq([w \in DOMAIN words |-> StrCount(Lower(col[r]), Lower(words[w]))])]

\* C16 (as claimed): for every column and every keyword list the call returns
\* one count per row, in row order, each the sum over the keywords of the
\* occurrences of the keyword in the row's text, whatever the letter case of
\* the text and of the keywords.
C16_CountsKeywordsIgnoringCase ==
    anger_pc = "called" =>
        counts = Returned(CaseInsensitiveCounts(column, anger_words))

\* the number of values of s that are 3600 or more, counted value by value
RECURSIVE HourOrLonger(_)
HourOrLonger(s) ==
    IF s = <<>> THEN 0
    ELSE (IF Head(s) >= 3600 THEN 1 ELSE 0) + HourOrLonger(Tail(s))

\* C17: for every list of values the call returns one number, the number of
\* values that are at least 3600 (a value of exactly 3600 is counted, 3599 or
\* less is not); the empty list gives 0.
C17_CountsValuesOfAnHourOrMore ==
    long_pc = "called" =>
        /\ long_sessions \in 0..Len(seconds_elapsed)
        /\ long_sessions = HourOrLonger(seconds_elapsed)
        /\ seconds_elapsed = <<>> => long_sessions = 0
        /\ (\A i \in DOMAIN seconds_elapsed : seconds_elapsed[i] = 3600)
              => long_sessions = Len(seconds_elapsed)

\* C17 witness: a call on a list that holds the value 3600 itself
C17_Witness ==
    /\ long_pc = "called"
    /\ seconds_elapsed = <<3600, 100, 3700>>
    /\ long_sessions = 2

\* the long-session features among a list of feature definitions
LongSessionFeatures(fs) ==
    SelectSeq(fs, LAMBDA f : f.kind = "agg" /\ f.prim = "count_long_dreaming_sessions")

\* the session rows of a user with the given action_detail
SessionsWithDetail(user, detail) ==
    LET rows == Rows(es, "sessions")
    IN  {j \in DOMAIN rows :
            rows[j]["user_id"] = user /\ rows[j]["action_detail"] = detail}

\* what a long-session feature filtered on detail holds for a user: the number
\* of the user's sessions with that action_detail that last an hour or more,
\* and the missing value when the user has no session with that action_detail
FilteredLongSessions(user, detail) ==
    LET rows == Rows(es, "sessions")
        mine == SessionsWithDetail(user, detail)
    IN  IF mine = {} THEN NaNCell
        ELSE Num(Cardinality({j \in mine : rows[j]["secs_elapsed"] >= 3600}))

\* C18: the example synthesis lists exactly three long-session features, all
\* on the users table over sessions.secs_elapsed: one without a filter and one
\* for each of view_search_results and wishlist_content_update; the value of a
\* filtered feature for a user is computed from that user's sessions with the
\* filter's action_detail and from no other session.
C18_ThreeLongSessionFeatures ==
    pc = "primitives" =>
        LET longs    == LongSessionFeatures(feature_definitions)
            filtered == SelectSeq(longs, LAMBDA f : f.where # NoWhere)
            users    == Rows(es, "users")
        IN  /\ Len(longs) = 3
            /\ \A k \in DOMAIN longs :
                  /\ longs[k].entity = "users"
                  /\ longs[k].base = <<IdentityFeature("sessions", "secs_elapsed")>>
            /\ Cardinality({k \in DOMAIN longs : longs[k].where = NoWhere}) = 1
            /\ {filtered[k].where : k \in DOMAIN filtered} =
                  {Where("action_detail", "view_search_results"),
                   Where("action_detail", "wishlist_content_update")}
            /\ \A k \in DOMAIN filtered : \A i \in DOMAIN users :
                  Evaluate(es, filtered[k], i) =
                      FilteredLongSessions(users[i]["id"], filtered[k].where[1].value)

\* C18 witness: the example list exists and user 1 has a long session viewing
\* search results next to a session of another kind
C18_Witness ==
    /\ pc = "primitives"
    /\ Len(LongSessionFeatures(feature_definitions)) = 3
    /\ \E i \in DOMAIN Rows(es, "users") :
          /\ Rows(es, "users")[i]["id"] = 1
          /\ FilteredLongSessions(1, "view_search_results") = Num(1)
          /\ FilteredLongSessions(1, "wishlist_content_update") = NaNCell
          /\ SessionsWithDetail(1, "-unknown-") # {}

\* f, or a feature f is built from, is computed by one of the two custom
\* primitives of the primitives cell
RECURSIVE UsesCustomPrimitive(_)
UsesCustomPrimitive(f) ==
    \/ f.prim \in {"count_long_dreaming_sessions", "anger_words_count"}
    \/ \E i \in DOMAIN f.base : UsesCustomPrimitive(f.base[i])

\* the column names of the features of the example list that use a custom
\* primitive
ExampleColumns ==
    LET example == SelectSeq(DfsFeatures(es, ExampleConfig), UsesCustomPrimitive)
    IN  Range(FeatureNames(example))

\* C19: no matrix exists while feature_definitions holds the example list;
\* from the synthesis cell on feature_definitions is the list of the depth-2
\* synthesis, which holds no feature of the keyword-count transform or of the
\* long-session aggregate; the test matrix has exactly the columns of that
\* list, and the two saved files hold no column of the example.
C19_ExampleStaysOutOfTheOutput ==
    /\ pc \in {"start", "loaded", "entities", "related", "primitives"} =>
          /\ feature_matrix = NoMatrix /\ feature_matrix_test = NoMatrix
          /\ saved_train_csv = NoTable /\ saved_test_csv = NoTable
    /\ pc \in {"synthesized", "replayed", "postprocessed", "saved"} =>
          /\ feature_definitions = DfsFeatures(es, SynthesisConfig)
          /\ feature_definitions # DfsFeatures(es, ExampleConfig)
          /\ \A k \in DOMAIN feature_definitions :
                ~UsesCustomPrimitive(feature_definitions[k])
          /\ Range(feature_matrix.columns) \cap ExampleColumns = {}
    /\ pc \in {"replayed", "postprocessed", "saved"} =>
          feature_matrix_test.columns = FeatureNames(feature_definitions)
    /\ pc = "saved" =>
          /\ saved_train_csv.columns =
                Append(FeatureNames(feature_definitions), LabelColumn)
          /\ saved_test_csv.columns = FeatureNames(feature_definitions)
          /\ Range(saved_train_csv.columns) \cap ExampleColumns = {}
          /\ Range(saved_test_csv.columns) \cap ExampleColumns = {}

\* C19 witness: both files are saved, the example list held three long-session
\* features, and the saved files hold columns of the depth-2 list
C19_Witness ==
    /\ pc = "saved"
    /\ Cardinality(ExampleColumns) = 3
    /\ "COUNT_LONG_DREAMING_SESSIONS(sessions.secs_elapsed)" \in ExampleColumns
    /\ "MAX(sessions.secs_elapsed)" \in Range(saved_train_csv.columns)
    /\ "MAX(sessions.secs_elapsed)" \in Range(saved_test_csv.columns)
    /\ Len(saved_train_csv.rows) > 0 /\ Len(saved_test_csv.rows) > 0

\* the columns of the training file other than the response, in file order
PredictorsOf(file) == SelectSeq(file.columns, LAMBDA c : c # ResponseVariable)

\* the run has trained
Trained == aml.leaderboard # <<>>

\* C20: once the selection cell has run without an exception, train_variables
\* is the columns of the training file in their order without
\* country_destination; training receives that list as x and
\* country_destination as y; the training frame keeps every column of the file,
\* country_destination among them as a factor and the others as imported.
C20_PredictorsAreColumnsWithoutResponse ==
    /\ ms_pc \in {"selected", "configured"} \/ Trained =>
          /\ train_variables = PredictorsOf(training_csv)
          /\ ResponseVariable \notin Range(train_variables)
          /\ Columns(X_train) = training_csv.columns
          /\ ResponseVariable \in Range(Columns(X_train))
          /\ X_train.types[ResponseVariable] = "enum"
          /\ \A c \in Range(train_variables) : X_train.types[c] = "int"
          /\ X_train.rows = training_csv.rows
    /\ Trained =>
          /\ aml.x = PredictorsOf(training_csv)
          /\ ResponseVariable \notin Range(aml.x)
          /\ aml.y = ResponseVariable

\* C20 witness: training has run on a file whose response column stands
\* between two predictors
C20_Witness ==
    /\ ms_pc = "trained"
    /\ training_csv.columns = <<"age", ResponseVariable, "gender">>
    /\ aml.x = <<"age", "gender">>
    /\ X_train.types[ResponseVariable] = "enum"

\* the positions at which both entity sets are built
BothBuilt == {"entities"} \cup Assembled

\* the key of the sessions table of es was made by the declaration of es, the
\* declaration of es_test made none, and the two tables hold the same rows,
\* data_id included, numbered from 0 in row order
KeyMadeOnceAndShared ==
    LET train == Entity(es, "sessions")
        test  == Entity(es_test, "sessions")
    IN  /\ train.created_index = "data_id"
        /\ test.created_index = ""
        /\ train.index = "data_id" /\ test.index = "data_id"
        /\ train.df.rows = test.df.rows
        /\ ColumnValues(test.df, "data_id") = [i \in DOMAIN sessions_csv.rows |-> i - 1]

\* no entity set holds a sessions table without the column data_id
NoSessionsWithoutKey ==
    /\ HasEntity(es, "sessions") => HasColumn(Entity(es, "sessions").df, "data_id")
    /\ HasEntity(es_test, "sessions") =>
          HasColumn(Entity(es_test, "sessions").df, "data_id")

\* the ids of both users files and the bucket ids are unique
FilesHaveUniqueKeys ==
    /\ IsInjective(ColumnValues(train_users_csv, "id"))
    /\ IsInjective(ColumnValues(test_users_ops_csv, "id"))
    /\ IsInjective(ColumnValues(age_gender_bkts_csv, "bucket_id"))

\* C21 (as claimed): in every run that builds both entity sets data_id is made
\* by the declaration of es only and every sessions row has the same data_id
\* in both; the sessions declaration of es_test succeeds only after that of
\* es: with the cell's halves exchanged the run ends in an error and es_test
\* gets no sessions table.
C21_TestDeclarationNeedsTrainingFirst ==
    /\ [](pc \in BothBuilt => KeyMadeOnceAndShared)
    /\ [][EntitySetCellTestFirst =>
            /\ pc' = "error"
            /\ NoSessionsWithoutKey'
            /\ ~HasEntity(es_test', "sessions")]_vars

\* C21 (amended): in every run that builds both entity sets data_id is made
\* by the declaration of es only and every sessions row has the same data_id
\* in both.  With the cell's halves exchanged the run ends in an error and no
\* entity set holds a sessions table without data_id; when the keys of the
\* files are unique the sessions declaration of es_test succeeds and makes
\* data_id itself, and the error is the RuntimeError of the declaration of es,
\* which asks for a new index that is already a column.
C21_KeySharedAndExchangedCellFails ==
    /\ [](pc \in BothBuilt => KeyMadeOnceAndShared)
    /\ [][EntitySetCellTestFirst =>
            /\ pc' = "error"
            /\ raised' \in {"AssertionError", "RuntimeError"}
            /\ NoSessionsWithoutKey'
            /\ FilesHaveUniqueKeys =>
                  /\ raised' = "RuntimeError"
                  /\ HasEntity(es_test', "sessions")
                  /\ Entity(es_test', "sessions").created_index = "data_id"
                  /\ ColumnValues(Entity(es_test', "sessions").df, "data_id") =
                        [i \in DOMAIN sessions_csv.rows |-> i - 1]
                  /\ ~HasEntity(es', "sessions")]_vars

\* C21 witness: the exchanged cell has run on two sessions rows: es_test holds
\* the keyed sessions table and the declaration of es raised
C21_Witness ==
    /\ pc = "error" /\ raised = "RuntimeError"
    /\ Len(sessions_csv.rows) = 2
    /\ HasEntity(es_test, "sessions") /\ ~HasEntity(es, "sessions")
    /\ ColumnValues(Entity(es_test, "sessions").df, "data_id") = <<0, 1>>

\* the k-th smallest of the ids, which are all different
KthSmallest(ids, k) ==
    CHOOSE v \in Range(ids) :
        Cardinality({i \in DOMAIN ids : ids[i] < v}) = k - 1

\* a saved file holds no column id, in its header or in a row
HoldsNoKey(file) ==
    /\ "id" \notin Range(file.columns)
    /\ \A k \in DOMAIN file.rows : DOMAIN file.rows[k] = Range(file.columns)
    /\ DOMAIN file = {"columns", "rows"}

\* C22: neither saved matrix holds the column id or a row index, no feature of
\* the list reads users.id or sessions.user_id, and row k of the saved test matrix holds the
\* features of the test user with the k-th smallest id (the age of a user
\* tells the users apart), one row per test user; the same holds of the
\* training matrix and the training users.
C22_NoKeyRowsInKeyOrder ==
    pc = "saved" =>
        LET test_ids  == ColumnValues(test_users_ops_csv, "id")
            train_ids == ColumnValues(train_users_csv, "id")
        IN  /\ HoldsNoKey(saved_train_csv) /\ HoldsNoKey(saved_test_csv)
            /\ \A i \in DOMAIN feature_definitions :
                  /\ ~Mentions(feature_definitions[i], "id")
                  /\ ~Mentions(feature_definitions[i], "user_id")
            /\ Len(saved_test_csv.rows) = Len(test_ids)
            /\ \A k \in DOMAIN saved_test_csv.rows :
                  saved_test_csv.rows[k]["age"] =
                      Num(UserRow(KthSmallest(test_ids, k)).age)
            /\ Len(saved_train_csv.rows) = Len(train_ids)
            /\ \A k \in DOMAIN saved_train_csv.rows :
                  saved_train_csv.rows[k]["age"] =
                      Num(UserRow(KthSmallest(train_ids, k)).age)

\* C22 witness: the test file lists user 4 before user 3 and the saved test
\* matrix holds the row of user 3 first
C22_Witness ==
    /\ pc = "saved"
    /\ ColumnValues(test_users_ops_csv, "id") = <<4, 3>>
    /\ ColumnValues(saved_test_csv, "age") = <<Num(50), Num(60)>>
    /\ "id" \notin Range(saved_test_csv.columns)

====
